---------------------------- MODULE Spec2Model ----------------------------
(***************************************************************************)
(* A model of the scoring and classification core of the stock-report      *)
(* generator (src/report_generator.py and its duplicated variants).        *)
(*                                                                         *)
(* Floating point values are modelled as tagged records: Num(n) is the     *)
(* number n in a fixed-point unit stated with each component, NaN is       *)
(* numpy's nan and None is Python's None.  A guard that the code writes    *)
(* with np.isnan / pd.isna is written with isnan / pd_isna here.           *)
(***************************************************************************)
EXTENDS Integers, Sequences, FiniteSets, TLC

VARIABLES
    \* ---- rule based scorer (generate_gap_report) ----
    global_s,      \* signal key -> [value |-> float]  (compute_global_signals)
    kosdaq_s,      \* signal key -> [value |-> float]  (compute_kosdaq_signals)
    kospi_out,     \* <<>> or the tuple returned by score_kospi
    kosdaq_out,    \* <<>> or the tuple returned by score_kosdaq
    sc_pc,         \* position inside generate_gap_report
    sc_edits,      \* number of signals that differ from the base profile
    \* ---- pattern classifier (generate_premium_stock_report, per ticker) ----
    pt_fetched,    \* what stock.get_market_ohlcv_by_date returned for the ticker
    df_recent,     \* what get_recent_ohlcv returned
    is_52w_high,   \* close >= high52 - EPS
    pattern,       \* what classify_breakout_pattern returned
    pt_pc,         \* position inside the per-ticker analysis
    \* ---- composite band (_ms_build_html / metadata of the market summary) ----
    bd_c,          \* the composite value handed to the banding functions
    bd_band,       \* what _ms_composite_band returned (report_generator.py)
    bd_band_ms,    \* what composite_band returned (marketSummary.py)
    bd_pc,
    \* ---- composite market-condition index (generate_market_summary_report) ----
    ms_scn,        \* the market and the shape of the series that is loaded
    ms_df,         \* the joined frame: [macro |-> columns exist, rows |-> rows]
    ms_out,        \* the rows returned by _ms_compute_scores
    ms_pc,
    \* ---- accumulation detail of one security (_supply_fetch_detail) ----
    sf_row,        \* the row of the listing: [mcap |-> market capitalisation]
    sf_price,      \* what fdr.DataReader returned, reindexed on the calendar
    sf_vol,        \* what stock.get_market_trading_volume_by_date returned
    sf_out,        \* None or the dict returned by _supply_fetch_detail
    sf_pc,
    \* ---- percentage return (pct) ----
    pc_a,          \* the more recent observation handed to pct
    pc_b,          \* the baseline handed to pct
    pc_out,        \* what pct returned
    pc_pc,
    \* ---- futures signals (compute_global_signals, the loop over FUTURES) ----
    fs_i,          \* index in FuturesSignals of the signal being computed
    fs_df,         \* the frame held in df_d / df_h
    fs_log,        \* the calls of safe_fetch made so far, in order
    fs_signals,    \* the signals dict: key -> [value |-> float]
    fs_pc,
    \* ---- KOSDAQ signals (compute_kosdaq_signals) ----
    kq_df,         \* what safe_fetch returned for KQ150.KS
    kq_s,          \* the dict returned: key -> [value |-> float], <<>> before
    kq_pc,
    \* generate_market_summary_report
    gm_loaded,      \* what the four loaders returned: k_idx, k_flow, q_idx, q_flow
    gm_df_k,        \* df_k
    gm_df_q,        \* df_q
    gm_exc,         \* the exception raised inside the try block, "" when none
    gm_result,      \* the value returned: a ReportData or None
    gm_pc,
    \* classify_breakout_pattern called on a window as fetched
    cb_df,          \* df_recent
    cb_high,        \* is_52w_high
    cb_out,         \* the label returned, or the exception raised
    cb_pc,
    \* main, process_and_send_report and the notifiers
    DELIVERY_MODE,  \* config.DELIVERY_MODE
    COMPOSITE_MODES,\* config.COMPOSITE_MODES
    notifier,       \* the notifier made by create_notifier, NoNotifier before
    dl_i,           \* the number of the report being processed, 1..4
    dl_report,      \* what the generator of report dl_i did: "report", "None", "raise"
    dl_calls,       \* the children whose send the running CompositeNotifier.send called
    results,        \* the list results of the running CompositeNotifier.send
    dl_result,      \* what notifier.send returned or raised for report dl_i
    dl_done,        \* one record per finished process_and_send_report call
    success_count,  \* main's counter
    dl_pc,
    \* the band and the strategy guide of one market (_ms_build_html)
    sg_module,      \* the module whose functions are called
    sg_c,           \* ck or cq
    sg_market,      \* market_name
    sg_band,        \* what the banding function returned
    sg_guide,       \* what the guide function returned
    sg_pc,
    \* generate_premium_stock_report
    df_base,        \* the tickers that passed the basic filter, in frame order
    pm_i,           \* position of the detail loop in df_base
    enriched,       \* the rows appended by the detail loop
    recommend,      \* section: today's recommendations
    premium_main,   \* section: premium securities
    watch_df,       \* section: watch list
    metadata,       \* the counts of the report's metadata
    pm_pc

scorerVars == <<global_s, kosdaq_s, kospi_out, kosdaq_out, sc_pc, sc_edits>>

patternVars == <<pt_fetched, df_recent, is_52w_high, pattern, pt_pc>>

bandVars == <<bd_c, bd_band, bd_band_ms, bd_pc>>

compositeVars == <<ms_scn, ms_df, ms_out, ms_pc>>

supplyVars == <<sf_row, sf_price, sf_vol, sf_out, sf_pc>>

pctVars == <<pc_a, pc_b, pc_out, pc_pc>>

futuresVars == <<fs_i, fs_df, fs_log, fs_signals, fs_pc>>

kqVars == <<kq_df, kq_s, kq_pc>>

reportVars == <<gm_loaded, gm_df_k, gm_df_q, gm_exc, gm_result, gm_pc>>

classifyVars == <<cb_df, cb_high, cb_out, cb_pc>>

deliveryVars == <<DELIVERY_MODE, COMPOSITE_MODES, notifier, dl_i, dl_report, dl_calls, results, dl_result, dl_done, success_count, dl_pc>>

guideVars == <<sg_module, sg_c, sg_market, sg_band, sg_guide, sg_pc>>

premiumVars == <<df_base, pm_i, enriched, recommend, premium_main, watch_df, metadata, pm_pc>>

vars == <<global_s, kosdaq_s, kospi_out, kosdaq_out, sc_pc, sc_edits,
          pt_fetched, df_recent, is_52w_high, pattern, pt_pc,
          bd_c, bd_band, bd_band_ms, bd_pc,
          ms_scn, ms_df, ms_out, ms_pc,
          sf_row, sf_price, sf_vol, sf_out, sf_pc,
          pc_a, pc_b, pc_out, pc_pc,
          fs_i, fs_df, fs_log, fs_signals, fs_pc,
          kq_df, kq_s, kq_pc,
          gm_loaded, gm_df_k, gm_df_q, gm_exc, gm_result, gm_pc,
          cb_df, cb_high, cb_out, cb_pc,
          DELIVERY_MODE, COMPOSITE_MODES, notifier, dl_i, dl_report, dl_calls, results, dl_result, dl_done, success_count, dl_pc,
          sg_module, sg_c, sg_market, sg_band, sg_guide, sg_pc,
          df_base, pm_i, enriched, recommend, premium_main, watch_df, metadata, pm_pc>>

\* what the actions of one component leave alone
notScorer == <<patternVars, bandVars, compositeVars, supplyVars, pctVars, futuresVars, kqVars, reportVars, classifyVars, deliveryVars, guideVars, premiumVars>>
notPattern == <<scorerVars, bandVars, compositeVars, supplyVars, pctVars, futuresVars, kqVars, reportVars, classifyVars, deliveryVars, guideVars, premiumVars>>
notBand == <<scorerVars, patternVars, compositeVars, supplyVars, pctVars, futuresVars, kqVars, reportVars, classifyVars, deliveryVars, guideVars, premiumVars>>
notComposite == <<scorerVars, patternVars, bandVars, supplyVars, pctVars, futuresVars, kqVars, reportVars, classifyVars, deliveryVars, guideVars, premiumVars>>
notSupply == <<scorerVars, patternVars, bandVars, compositeVars, pctVars, futuresVars, kqVars, reportVars, classifyVars, deliveryVars, guideVars, premiumVars>>
notPct == <<scorerVars, patternVars, bandVars, compositeVars, supplyVars, futuresVars, kqVars, reportVars, classifyVars, deliveryVars, guideVars, premiumVars>>
notFutures == <<scorerVars, patternVars, bandVars, compositeVars, supplyVars, pctVars, kqVars, reportVars, classifyVars, deliveryVars, guideVars, premiumVars>>
notKq == <<scorerVars, patternVars, bandVars, compositeVars, supplyVars, pctVars, futuresVars, reportVars, classifyVars, deliveryVars, guideVars, premiumVars>>
notReport == <<scorerVars, patternVars, bandVars, compositeVars, supplyVars, pctVars, futuresVars, kqVars, classifyVars, deliveryVars, guideVars, premiumVars>>
notClassify == <<scorerVars, patternVars, bandVars, compositeVars, supplyVars, pctVars, futuresVars, kqVars, reportVars, deliveryVars, guideVars, premiumVars>>
notDelivery == <<scorerVars, patternVars, bandVars, compositeVars, supplyVars, pctVars, futuresVars, kqVars, reportVars, classifyVars, guideVars, premiumVars>>
notGuide == <<scorerVars, patternVars, bandVars, compositeVars, supplyVars, pctVars, futuresVars, kqVars, reportVars, classifyVars, deliveryVars, premiumVars>>
notPremium == <<scorerVars, patternVars, bandVars, compositeVars, supplyVars, pctVars, futuresVars, kqVars, reportVars, classifyVars, deliveryVars, guideVars>>

-----------------------------------------------------------------------------
(* Values *)

None == [tag |-> "None", v |-> 0]
NaN  == [tag |-> "NaN", v |-> 0]
Num(n) == [tag |-> "num", v |-> n]

isnan(x) == x.tag = "NaN"

\* pd.isna / pd.notna
pd_isna(x) == x.tag \in {"NaN", "None"}

\* def safe_float(v): None -> nan, float(v) otherwise
safe_float(v) == IF v.tag = "None" THEN NaN ELSE v

Abs(n) == IF n < 0 THEN -n ELSE n
Max2(a, b) == IF a >= b THEN a ELSE b
Min2(a, b) == IF a <= b THEN a ELSE b

-----------------------------------------------------------------------------
(* Rule based scorer.  Signal values are in tenths (1.0 % is Num(10),      *)
(* 22 VIX points are Num(220)); scores and points are plain integers.      *)

\* def fmt(v, nd=3): "NaN", one decimal for |v| >= 1000, nd decimals otherwise.
\* The text is modelled by the number of decimals and the number printed.
fmt(v, nd) ==
    LET x == safe_float(v) IN
    IF isnan(x) THEN [nan |-> TRUE, decimals |-> 0, num |-> 0]
    ELSE IF Abs(x.v) >= 10000 THEN [nan |-> FALSE, decimals |-> 1, num |-> x.v]
    ELSE [nan |-> FALSE, decimals |-> nd, num |-> x.v]

\* a driver text that prints no number
NoNumber == [nan |-> FALSE, decimals |-> 0, num |-> 0]

Driver(text, shown) == [text |-> text, shown |-> shown]

\* up += pts; du.insert(0, driver): the newest driver first
AddUpFront(acc, pts, drv) == [acc EXCEPT !.up = @ + pts, !.du = <<drv>> \o @]

\* up += pts; du.append(driver) without the driver: a rule that scores silently
AddUpSilent(acc, pts, drv) == [acc EXCEPT !.up = @ + pts]

\* up += pts; du.append(driver)
AddUp(acc, pts, drv) == [acc EXCEPT !.up = @ + pts, !.du = Append(@, drv)]

\* a downside rule that also takes its points off the upside accumulator
AddDownOffsetting(acc, pts, drv) ==
    [acc EXCEPT !.down = @ + pts, !.up = @ - pts, !.dd = Append(@, drv)]

\* down += pts; dd.append(driver)
AddDown(acc, pts, drv) == [acc EXCEPT !.down = @ + pts, !.dd = Append(@, drv)]

\* clamp_score without the upper limit
clamp_score_nomin(x) == Max2(0, x)

\* def clamp_score(x): int(max(0, min(100, x)))
clamp_score(x) == Max2(0, Min2(100, x))

\* ---- score_kospi, one operator per if-block, in the order of the code ----

kospi_ES_d(s, acc) ==
    LET ES_d == safe_float(s["ES_ret_d"].value) IN
    IF ~isnan(ES_d)
    THEN IF ES_d.v >= 10 THEN AddUp(acc, 12, Driver("ES daily up", fmt(ES_d, 3)))
         ELSE IF ES_d.v <= -10 THEN AddDown(acc, 12, Driver("ES daily down", fmt(ES_d, 3)))
         ELSE acc
    ELSE acc

kospi_NQ_d(s, acc) ==
    LET NQ_d == safe_float(s["NQ_ret_d"].value) IN
    IF ~isnan(NQ_d)
    THEN IF NQ_d.v >= 15 THEN AddUp(acc, 15, Driver("NQ daily up", fmt(NQ_d, 3)))
         ELSE IF NQ_d.v <= -15 THEN AddDown(acc, 15, Driver("NQ daily down", fmt(NQ_d, 3)))
         ELSE acc
    ELSE acc

kospi_ES_4h(s, acc) ==
    LET ES_4h == safe_float(s["ES_ret_4h"].value) IN
    IF ~isnan(ES_4h)
    THEN IF ES_4h.v >= 8 THEN AddUp(acc, 8, Driver("ES 4h up", fmt(ES_4h, 3)))
         ELSE IF ES_4h.v <= -8 THEN AddDown(acc, 8, Driver("ES 4h down", fmt(ES_4h, 3)))
         ELSE acc
    ELSE acc

kospi_NQ_4h(s, acc) ==
    LET NQ_4h == safe_float(s["NQ_ret_4h"].value) IN
    IF ~isnan(NQ_4h)
    THEN IF NQ_4h.v >= 12 THEN AddUp(acc, 10, Driver("NQ 4h up", fmt(NQ_4h, 3)))
         ELSE IF NQ_4h.v <= -12 THEN AddDown(acc, 10, Driver("NQ 4h down", fmt(NQ_4h, 3)))
         ELSE acc
    ELSE acc

kospi_BTC_d(s, acc) ==
    LET BTC_d == safe_float(s["BTC_ret_d"].value) IN
    IF ~isnan(BTC_d)
    THEN IF BTC_d.v >= 70 THEN AddUp(acc, 6, Driver("BTC daily up", fmt(BTC_d, 3)))
         ELSE IF BTC_d.v <= -70 THEN AddDown(acc, 6, Driver("BTC daily down", fmt(BTC_d, 3)))
         ELSE acc
    ELSE acc

kospi_BTC_3h(s, acc) ==
    LET BTC_3h == safe_float(s["BTC_ret_3h"].value) IN
    IF ~isnan(BTC_3h)
    THEN IF BTC_3h.v >= 40 THEN AddUp(acc, 3, Driver("BTC 3h up", fmt(BTC_3h, 3)))
         ELSE IF BTC_3h.v <= -40 THEN AddDown(acc, 3, Driver("BTC 3h down", fmt(BTC_3h, 3)))
         ELSE acc
    ELSE acc

kospi_TNX(s, acc) ==
    LET TNX == safe_float(s["TNX_chg_bps"].value) IN
    IF ~isnan(TNX)
    THEN IF TNX.v >= 100 THEN AddDown(acc, 10, Driver("US10Y yield jump", fmt(TNX, 2)))
         ELSE IF TNX.v <= -80 THEN AddUp(acc, 6, Driver("US10Y yield fall", fmt(TNX, 2)))
         ELSE acc
    ELSE acc

\* the VIX block with a missing value read as 0
kospi_VIX_nan_as_zero(s, acc) ==
    LET raw == safe_float(s["VIX_lvl"].value)
        VIX == IF isnan(raw) THEN Num(0) ELSE raw IN
    IF VIX.v >= 220 THEN AddDown(acc, 8, Driver("VIX high", fmt(VIX, 2)))
    ELSE IF VIX.v <= 140 THEN AddUp(acc, 3, Driver("VIX low", fmt(VIX, 2)))
    ELSE acc

kospi_VIX(s, acc) ==
    LET VIX == safe_float(s["VIX_lvl"].value) IN
    IF ~isnan(VIX)
    THEN IF VIX.v >= 220 THEN AddDown(acc, 8, Driver("VIX high", fmt(VIX, 2)))
         ELSE IF VIX.v <= 140 THEN AddUp(acc, 3, Driver("VIX low", fmt(VIX, 2)))
         ELSE acc
    ELSE acc

kospi_V9(s, acc) ==
    LET V9 == safe_float(s["VIX9D_lvl"].value) IN
    IF ~isnan(V9)
    THEN IF V9.v >= 250 THEN AddDown(acc, 10, Driver("VIX9D high", fmt(V9, 2)))
         ELSE IF V9.v <= 150 THEN AddUp(acc, 3, Driver("VIX9D calm", fmt(V9, 2)))
         ELSE acc
    ELSE acc

kospi_SP(s, acc) ==
    LET SP == safe_float(s["VIX_spread"].value) IN
    IF ~isnan(SP) /\ SP.v >= 30
    THEN AddDown(acc, 5, Driver("VIX9D-VIX spread wide", fmt(SP, 2)))
    ELSE acc

kospi_MOVE(s, acc) ==
    LET MOVE == safe_float(s["MOVE_lvl"].value) IN
    IF ~isnan(MOVE)
    THEN IF MOVE.v >= 1300 THEN AddDown(acc, 10, Driver("MOVE very high", fmt(MOVE, 1)))
         ELSE IF MOVE.v <= 900 THEN AddUp(acc, 3, Driver("MOVE low", fmt(MOVE, 1)))
         ELSE acc
    ELSE acc

kospi_USDKRW(s, acc) ==
    LET USDKRW == safe_float(s["USDKRW_diff"].value) IN
    IF ~isnan(USDKRW)
    THEN IF USDKRW.v >= 80 THEN AddDown(acc, 8, Driver("KRW sharply weaker", fmt(USDKRW, 2)))
         ELSE IF USDKRW.v <= -80 THEN AddUp(acc, 5, Driver("KRW stronger", fmt(USDKRW, 2)))
         ELSE acc
    ELSE acc

kospi_DXY(s, acc) ==
    LET DXY == safe_float(s["DXY_dd"].value) IN
    IF ~isnan(DXY)
    THEN IF DXY.v >= 7 THEN AddDown(acc, 6, Driver("DXY jump", fmt(DXY, 2)))
         ELSE IF DXY.v <= -7 THEN AddUp(acc, 6, Driver("DXY fall", fmt(DXY, 2)))
         ELSE acc
    ELSE acc

kospi_K200(s, acc) ==
    LET K200 == safe_float(s["KOSPI200_ret_d"].value) IN
    IF ~isnan(K200)
    THEN IF K200.v >= 15 THEN AddUp(acc, 6, Driver("KOSPI200 up", fmt(K200, 3)))
         ELSE IF K200.v <= -15 THEN AddDown(acc, 6, Driver("KOSPI200 down", fmt(K200, 3)))
         ELSE acc
    ELSE acc

\* The if-blocks of score_kospi in source order.
KospiRuleCount == 14

kospi_rule(i, s, acc) ==
    CASE i = 1 -> kospi_ES_d(s, acc)
      [] i = 2 -> kospi_NQ_d(s, acc)
      [] i = 3 -> kospi_ES_4h(s, acc)
      [] i = 4 -> kospi_NQ_4h(s, acc)
      [] i = 5 -> kospi_BTC_d(s, acc)
      [] i = 6 -> kospi_BTC_3h(s, acc)
      [] i = 7 -> kospi_TNX(s, acc)
      [] i = 8 -> kospi_VIX(s, acc)
      [] i = 9 -> kospi_V9(s, acc)
      [] i = 10 -> kospi_SP(s, acc)
      [] i = 11 -> kospi_MOVE(s, acc)
      [] i = 12 -> kospi_USDKRW(s, acc)
      [] i = 13 -> kospi_DXY(s, acc)
      [] i = 14 -> kospi_K200(s, acc)

\* The signals each if-block of score_kospi reads.
kospi_reads(i) ==
    CASE i = 1 -> {"ES_ret_d"}
      [] i = 2 -> {"NQ_ret_d"}
      [] i = 3 -> {"ES_ret_4h"}
      [] i = 4 -> {"NQ_ret_4h"}
      [] i = 5 -> {"BTC_ret_d"}
      [] i = 6 -> {"BTC_ret_3h"}
      [] i = 7 -> {"TNX_chg_bps"}
      [] i = 8 -> {"VIX_lvl"}
      [] i = 9 -> {"VIX9D_lvl"}
      [] i = 10 -> {"VIX_spread"}
      [] i = 11 -> {"MOVE_lvl"}
      [] i = 12 -> {"USDKRW_diff"}
      [] i = 13 -> {"DXY_dd"}
      [] i = 14 -> {"KOSPI200_ret_d"}

\* up = 0; down = 0; du, dd = [], []
Acc0 == [up |-> 0, down |-> 0, du |-> <<>>, dd |-> <<>>]

\* The accumulators after the first n if-blocks of score_kospi, the blocks in
\* `skip` left out (skip = {} is the code).
RECURSIVE kospi_run(_, _, _)
kospi_run(n, s, skip) ==
    IF n = 0 THEN Acc0
    ELSE LET acc == kospi_run(n - 1, s, skip) IN
         IF n \in skip THEN acc ELSE kospi_rule(n, s, acc)

\* return clamp_score(up), clamp_score(down), du, dd
ScoreResult(acc) == <<clamp_score(acc.up), clamp_score(acc.down), acc.du, acc.dd>>

score_kospi(s) == ScoreResult(kospi_run(KospiRuleCount, s, {}))

\* ---- score_kosdaq ----

kosdaq_NQ_d(g, k, acc) ==
    LET NQ_d == safe_float(g["NQ_ret_d"].value) IN
    IF ~isnan(NQ_d)
    THEN IF NQ_d.v >= 15 THEN AddUp(acc, 14, Driver("NQ up, growth friendly", fmt(NQ_d, 3)))
         ELSE IF NQ_d.v <= -15 THEN AddDown(acc, 14, Driver("NQ down, growth hit", fmt(NQ_d, 3)))
         ELSE acc
    ELSE acc

kosdaq_NQ_4h(g, k, acc) ==
    LET NQ_4h == safe_float(g["NQ_ret_4h"].value) IN
    IF ~isnan(NQ_4h)
    THEN IF NQ_4h.v >= 12 THEN AddUp(acc, 8, Driver("NQ 4h up", fmt(NQ_4h, 3)))
         ELSE IF NQ_4h.v <= -12 THEN AddDown(acc, 8, Driver("NQ 4h down", fmt(NQ_4h, 3)))
         ELSE acc
    ELSE acc

kosdaq_V9(g, k, acc) ==
    LET V9 == safe_float(g["VIX9D_lvl"].value) IN
    IF ~isnan(V9) /\ V9.v >= 250
    THEN AddDown(acc, 10, Driver("VIX9D high, fragile", fmt(V9, 2)))
    ELSE acc

kosdaq_MOVE(g, k, acc) ==
    LET MOVE == safe_float(g["MOVE_lvl"].value) IN
    IF ~isnan(MOVE) /\ MOVE.v >= 1300
    THEN AddDown(acc, 8, Driver("MOVE high", fmt(MOVE, 1)))
    ELSE acc

kosdaq_USDKRW(g, k, acc) ==
    LET USDKRW == safe_float(g["USDKRW_diff"].value) IN
    IF ~isnan(USDKRW) /\ USDKRW.v >= 80
    THEN AddDown(acc, 6, Driver("KRW sharply weaker", fmt(USDKRW, 2)))
    ELSE acc

kosdaq_KQ_ret(g, k, acc) ==
    LET KQ_ret == safe_float(k["KOSDAQ150_ret_d"].value) IN
    IF ~isnan(KQ_ret)
    THEN IF KQ_ret.v >= 20 THEN AddUp(acc, 14, Driver("KOSDAQ150 up", fmt(KQ_ret, 3)))
         ELSE IF KQ_ret.v <= -20 THEN AddDown(acc, 14, Driver("KOSDAQ150 down", fmt(KQ_ret, 3)))
         ELSE acc
    ELSE acc

kosdaq_ATR(g, k, acc) ==
    LET KQ_ret == safe_float(k["KOSDAQ150_ret_d"].value)
        ATR == safe_float(k["KOSDAQ150_ATR5_pct"].value) IN
    IF ~isnan(ATR)
    THEN IF ATR.v >= 35 /\ ~isnan(KQ_ret) /\ KQ_ret.v <= -10
         THEN AddDown(acc, 12, Driver("ATR high with fall", fmt(ATR, 2)))
         ELSE IF ATR.v >= 35 /\ ~isnan(KQ_ret) /\ KQ_ret.v >= 10
         THEN AddUp(acc, 10, Driver("ATR high with rise", fmt(ATR, 2)))
         ELSE acc
    ELSE acc

kosdaq_long_red(g, k, acc) ==
    LET x == safe_float(k["KOSDAQ150_long_red"].value)
        long_red == (~isnan(x) /\ x.v = 10) IN
    IF long_red
    THEN AddDown(acc, 12, Driver("long red candle", NoNumber))
    ELSE acc

KosdaqRuleCount == 8

kosdaq_rule(i, g, k, acc) ==
    CASE i = 1 -> kosdaq_NQ_d(g, k, acc)
      [] i = 2 -> kosdaq_NQ_4h(g, k, acc)
      [] i = 3 -> kosdaq_V9(g, k, acc)
      [] i = 4 -> kosdaq_MOVE(g, k, acc)
      [] i = 5 -> kosdaq_USDKRW(g, k, acc)
      [] i = 6 -> kosdaq_KQ_ret(g, k, acc)
      [] i = 7 -> kosdaq_ATR(g, k, acc)
      [] i = 8 -> kosdaq_long_red(g, k, acc)

\* The signals each if-block of score_kosdaq reads.
kosdaq_reads(i) ==
    CASE i = 1 -> {"NQ_ret_d"}
      [] i = 2 -> {"NQ_ret_4h"}
      [] i = 3 -> {"VIX9D_lvl"}
      [] i = 4 -> {"MOVE_lvl"}
      [] i = 5 -> {"USDKRW_diff"}
      [] i = 6 -> {"KOSDAQ150_ret_d"}
      [] i = 7 -> {"KOSDAQ150_ATR5_pct", "KOSDAQ150_ret_d"}
      [] i = 8 -> {"KOSDAQ150_long_red"}

RECURSIVE kosdaq_run(_, _, _, _)
kosdaq_run(n, g, k, skip) ==
    IF n = 0 THEN Acc0
    ELSE LET acc == kosdaq_run(n - 1, g, k, skip) IN
         IF n \in skip THEN acc ELSE kosdaq_rule(n, g, k, acc)

score_kosdaq(g, k) == ScoreResult(kosdaq_run(KosdaqRuleCount, g, k, {}))

-----------------------------------------------------------------------------
(* generate_gap_report: the signals are extracted, then score_kospi and    *)
(* score_kosdaq are applied to them.  The signal mapping starts from one   *)
(* of the base profiles and up to MaxEdits signals are then replaced by    *)
(* any value of the signal's domain.                                       *)

MaxEdits == 1
Huge == 1000000

GlobalKeys == {"ES_ret_d", "NQ_ret_d", "ES_ret_4h", "NQ_ret_4h", "BTC_ret_d",
               "BTC_ret_3h", "TNX_chg_bps", "VIX_lvl", "VIX9D_lvl", "VIX_spread",
               "MOVE_lvl", "USDKRW_diff", "DXY_dd", "KOSPI200_ret_d"}
KosdaqKeys == {"KOSDAQ150_ret_d", "KOSDAQ150_ATR5_pct", "KOSDAQ150_long_red"}

\* Keys whose fall is bearish (returns); a rise of every other key is bearish.
ReturnKeys == {"ES_ret_d", "NQ_ret_d", "ES_ret_4h", "NQ_ret_4h", "BTC_ret_d",
               "BTC_ret_3h", "KOSPI200_ret_d", "KOSDAQ150_ret_d"}

\* The values at which the rules of a key switch.
Thresholds(k) ==
    CASE k = "ES_ret_d" -> {-10, 10}
      [] k = "NQ_ret_d" -> {-15, 15}
      [] k = "ES_ret_4h" -> {-8, 8}
      [] k = "NQ_ret_4h" -> {-12, 12}
      [] k = "BTC_ret_d" -> {-70, 70}
      [] k = "BTC_ret_3h" -> {-40, 40}
      [] k = "TNX_chg_bps" -> {-80, 100}
      [] k = "VIX_lvl" -> {140, 220}
      [] k = "VIX9D_lvl" -> {150, 250}
      [] k = "VIX_spread" -> {30}
      [] k = "MOVE_lvl" -> {900, 1300}
      [] k = "USDKRW_diff" -> {-80, 80}
      [] k = "DXY_dd" -> {-7, 7}
      [] k = "KOSPI200_ret_d" -> {-15, 15}
      [] k = "KOSDAQ150_ret_d" -> {-20, -10, 10, 20}
      [] k = "KOSDAQ150_ATR5_pct" -> {35}
      [] k = "KOSDAQ150_long_red" -> {10}

SigDomain(k) ==
    {None, NaN, Num(0)}
    \cup {Num(t) : t \in Thresholds(k)}
    \cup (IF k = "KOSDAQ150_long_red" THEN {} ELSE {Num(-Huge), Num(Huge)})

Profiles == {"nan", "none", "zero", "bear", "bull", "at_low", "at_high"}

SetMin(S) == CHOOSE x \in S : \A y \in S : x <= y
SetMax(S) == CHOOSE x \in S : \A y \in S : x >= y

ProfileValue(p, k) ==
    CASE p = "nan" -> NaN
      [] p = "none" -> None
      [] p = "zero" -> Num(0)
      [] p = "at_low" -> Num(SetMin(Thresholds(k)))
      [] p = "at_high" -> Num(SetMax(Thresholds(k)))
      [] p = "bear" -> IF k = "KOSDAQ150_long_red" THEN Num(10)
                       ELSE IF k \in ReturnKeys THEN Num(-Huge) ELSE Num(Huge)
      [] p = "bull" -> IF k = "KOSDAQ150_long_red" THEN Num(0)
                       ELSE IF k = "KOSDAQ150_ATR5_pct" THEN Num(Huge)
                       ELSE IF k \in ReturnKeys THEN Num(Huge) ELSE Num(-Huge)

Signal(v) == [value |-> v]

IdleScorer ==
    /\ global_s = [k \in GlobalKeys |-> Signal(NaN)]
    /\ kosdaq_s = [k \in KosdaqKeys |-> Signal(NaN)]
    /\ kospi_out = <<>>
    /\ kosdaq_out = <<>>
    /\ sc_pc = "idle"
    /\ sc_edits = 0

InitScorer ==
    /\ \E p \in Profiles :
          /\ global_s = [k \in GlobalKeys |-> Signal(ProfileValue(p, k))]
          /\ kosdaq_s = [k \in KosdaqKeys |-> Signal(ProfileValue(p, k))]
    /\ kospi_out = <<>>
    /\ kosdaq_out = <<>>
    /\ sc_pc = "signals"
    /\ sc_edits = 0

\* compute_global_signals stores one signal: signals[key] = {"value": v, ...}
SetGlobalSignal ==
    /\ sc_pc = "signals"
    /\ sc_edits < MaxEdits
    /\ \E k \in GlobalKeys : \E v \in SigDomain(k) :
          /\ v # global_s[k].value
          /\ global_s' = [global_s EXCEPT ![k] = Signal(v)]
    /\ sc_edits' = sc_edits + 1
    /\ UNCHANGED <<kosdaq_s, kospi_out, kosdaq_out, sc_pc>>
    /\ UNCHANGED notScorer

\* compute_kosdaq_signals stores one signal
SetKosdaqSignal ==
    /\ sc_pc = "signals"
    /\ sc_edits < MaxEdits
    /\ \E k \in KosdaqKeys : \E v \in SigDomain(k) :
          /\ v # kosdaq_s[k].value
          /\ kosdaq_s' = [kosdaq_s EXCEPT ![k] = Signal(v)]
    /\ sc_edits' = sc_edits + 1
    /\ UNCHANGED <<global_s, kospi_out, kosdaq_out, sc_pc>>
    /\ UNCHANGED notScorer

\* ku, kd, ku_drv, kd_drv = score_kospi(global_signals)
ScoreKospi ==
    /\ sc_pc = "signals"
    /\ kospi_out' = score_kospi(global_s)
    /\ sc_pc' = "kospi_scored"
    /\ UNCHANGED <<global_s, kosdaq_s, kosdaq_out, sc_edits>>
    /\ UNCHANGED notScorer

\* du, dd, du_drv, dd_drv = score_kosdaq(global_signals, kosdaq_signals)
ScoreKosdaq ==
    /\ sc_pc = "kospi_scored"
    /\ kosdaq_out' = score_kosdaq(global_s, kosdaq_s)
    /\ sc_pc' = "scored"
    /\ UNCHANGED <<global_s, kosdaq_s, kospi_out, sc_edits>>
    /\ UNCHANGED notScorer

NextScorer == SetGlobalSignal \/ SetKosdaqSignal \/ ScoreKospi \/ ScoreKosdaq

-----------------------------------------------------------------------------
(* Pattern classifier.  Prices and volumes are integers.  A data frame is  *)
(* None or a sequence of rows in the order of the frame, each row carrying *)
(* its index (the date).  The source's Korean labels are written with the *)
(* names of the specification, in the order of the if/elif chain:          *)
(* StrongBreakout, MildBreakout, FalseBreakoutUpperShadow,                 *)
(* BreakoutFailureCrash, Neutral.                                          *)
(* Comparisons of quotients are made exactly, by cross multiplication.     *)

NoDf == [none |-> TRUE, rows |-> <<>>]
Df(rows) == [none |-> FALSE, rows |-> rows]

Bar(d, o, h, l, c, v) ==
    [date |-> d, open |-> o, high |-> h, low |-> l, close |-> c, volume |-> v]

\* df[(df[close] > 0) & (df[volume] > 0)]: the rows kept, in order
RECURSIVE SelectTraded(_)
SelectTraded(rows) ==
    IF rows = <<>> THEN <<>>
    ELSE LET r == Head(rows)
             rest == SelectTraded(Tail(rows)) IN
         IF r.close > 0 /\ r.volume > 0 THEN <<r>> \o rest ELSE rest

\* def get_recent_ohlcv: None for a failed or empty fetch, else the rows with
\* close > 0 and volume > 0, None when no row is left
get_recent_ohlcv(fetched) ==
    IF fetched.none \/ fetched.rows = <<>> THEN NoDf
    ELSE LET kept == SelectTraded(fetched.rows) IN
         IF kept = <<>> THEN NoDf ELSE Df(kept)

\* insertion of a row into rows sorted by date (stable)
RECURSIVE InsertByDate(_, _)
InsertByDate(sorted, r) ==
    IF sorted = <<>> THEN <<r>>
    ELSE IF sorted[Len(sorted)].date <= r.date THEN Append(sorted, r)
    ELSE Append(InsertByDate(SubSeq(sorted, 1, Len(sorted) - 1), r), sorted[Len(sorted)])

\* df.sort_index()
RECURSIVE sort_index(_)
sort_index(rows) ==
    IF rows = <<>> THEN <<>>
    ELSE InsertByDate(sort_index(SubSeq(rows, 1, Len(rows) - 1)), rows[Len(rows)])

RECURSIVE SumVolume(_)
SumVolume(rows) == IF rows = <<>> THEN 0 ELSE Head(rows).volume + SumVolume(Tail(rows))

\* df.tail(n)
tail(rows, n) == IF Len(rows) <= n THEN rows ELSE SubSeq(rows, Len(rows) - n + 1, Len(rows))

\* the rows whose volumes vol_ma averages: the last 20 of 20 or more, else all
vol_ma_rows(rows) == IF Len(rows) >= 20 THEN tail(rows, 20) ELSE rows

\* The if/elif chain of classify_breakout_pattern on the extracted numbers.
\* total_range = max(high - low, 1e-6) is the quotient tr_num / tr_den;
\* vol_ma is vol_sum / vol_cnt.
\* the chain with the first two branches swapped
pattern_chain_mild_first(close_today, close_prev, high_today, low_today, open_today, volume_today, vol_sum, vol_cnt) ==
    LET tr_num == IF high_today - low_today >= 1 THEN high_today - low_today ELSE 1
        tr_den == IF high_today - low_today >= 1 THEN 1 ELSE 1000000
        shadow == high_today - Max2(open_today, close_today)
    IN
    IF close_today > close_prev /\ volume_today * vol_cnt >= vol_sum
        THEN "MildBreakout"
    ELSE IF 100 * close_today >= 103 * close_prev
            /\ 2 * volume_today * vol_cnt >= 3 * vol_sum
        THEN "StrongBreakout"
    ELSE IF close_today <= close_prev /\ 10 * shadow * tr_den > 6 * tr_num
        THEN "FalseBreakoutUpperShadow"
    ELSE IF 100 * close_today <= 97 * close_prev
        THEN "BreakoutFailureCrash"
    ELSE "Neutral"

\* the chain with the crash test ahead of the upper-shadow test
pattern_chain_crash_first(close_today, close_prev, high_today, low_today, open_today, volume_today, vol_sum, vol_cnt) ==
    LET tr_num == IF high_today - low_today >= 1 THEN high_today - low_today ELSE 1
        tr_den == IF high_today - low_today >= 1 THEN 1 ELSE 1000000
        shadow == high_today - Max2(open_today, close_today)
    IN
    IF 100 * close_today >= 103 * close_prev
          /\ 2 * volume_today * vol_cnt >= 3 * vol_sum
        THEN "StrongBreakout"
    ELSE IF close_today > close_prev /\ volume_today * vol_cnt >= vol_sum
        THEN "MildBreakout"
    ELSE IF 100 * close_today <= 97 * close_prev
        THEN "BreakoutFailureCrash"
    ELSE IF close_today <= close_prev /\ 10 * shadow * tr_den > 6 * tr_num
        THEN "FalseBreakoutUpperShadow"
    ELSE "Neutral"

pattern_chain(close_today, close_prev, high_today, low_today, open_today, volume_today, vol_sum, vol_cnt) ==
    LET tr_num == IF high_today - low_today >= 1 THEN high_today - low_today ELSE 1
        tr_den == IF high_today - low_today >= 1 THEN 1 ELSE 1000000
        \* upper_shadow_ratio = shadow / total_range
        shadow == high_today - Max2(open_today, close_today)
    IN
    \* change_today >= 0.03 and volume_today >= 1.5 * vol_ma
    IF 100 * close_today >= 103 * close_prev
          /\ 2 * volume_today * vol_cnt >= 3 * vol_sum
        THEN "StrongBreakout"
    \* change_today > 0 and volume_today >= vol_ma
    ELSE IF close_today > close_prev /\ volume_today * vol_cnt >= vol_sum
        THEN "MildBreakout"
    \* change_today <= 0 and upper_shadow_ratio > 0.6
    ELSE IF close_today <= close_prev /\ 10 * shadow * tr_den > 6 * tr_num
        THEN "FalseBreakoutUpperShadow"
    \* change_today <= -0.03
    ELSE IF 100 * close_today <= 97 * close_prev
        THEN "BreakoutFailureCrash"
    ELSE "Neutral"

\* classify_breakout_pattern that classifies days that are no 52-week high
classify_breakout_pattern_any_day(df, is_high) ==
    IF df.none \/ Len(df.rows) < 5 THEN ""
    ELSE LET rows == sort_index(df.rows)
             today == rows[Len(rows)]
             prev == rows[Len(rows) - 1]
             vrows == vol_ma_rows(rows)
         IN IF prev.close = 0 THEN "ZeroDivisionError"
            ELSE pattern_chain(today.close, prev.close, today.high, today.low,
                               today.open, today.volume, SumVolume(vrows), Len(vrows))

\* def classify_breakout_pattern(df_recent, is_52w_high).  The float division
\* close_today / close_prev raises ZeroDivisionError for close_prev = 0, which
\* is the result "ZeroDivisionError" here.
classify_breakout_pattern(df, is_high) ==
    IF (~is_high) \/ df.none \/ Len(df.rows) < 5 THEN ""
    ELSE LET rows == sort_index(df.rows)
             today == rows[Len(rows)]
             prev == rows[Len(rows) - 1]
             vrows == vol_ma_rows(rows)
         IN IF prev.close = 0 THEN "ZeroDivisionError"
            ELSE pattern_chain(today.close, prev.close, today.high, today.low,
                               today.open, today.volume, SumVolume(vrows), Len(vrows))

PatternLabels == {"StrongBreakout", "MildBreakout", "FalseBreakoutUpperShadow",
                  "BreakoutFailureCrash", "Neutral"}

\* ---- the per-ticker analysis of generate_premium_stock_report ----
\* The fetched window has n rows: an oldest row, quiet rows, the previous day
\* and today.  Quiet rows close at BaseClose with volume BaseVolume.

MaxBars == 21
BaseClose == 100
BaseVolume == 10

OldestVolumes == {10, 400}
TodayCloses == {96, 97, 100, 101, 103, 104}
TodayVolumes == {5, 10, 20, 100}
OpenOffsets == {0, 2}
UpperShadows == {0, 6, 7}
LowerShadows == {0, 2}
PrevKinds == {"traded", "halted"}

QuietBar(d, v) == Bar(d, BaseClose, BaseClose, BaseClose, BaseClose, v)

TodayBar(d, c, oo, us, ls, v) ==
    Bar(d, c + oo, Max2(c + oo, c) + us, Min2(c + oo, c) - ls, c, v)

\* A halted previous day is reported with close 0 and volume 0.
FetchedRows(n, ov, pk, today) ==
    [i \in 1..n |->
        IF i = n THEN [today EXCEPT !.date = n]
        ELSE IF i = n - 1 /\ pk = "halted" THEN Bar(i, 0, 0, 0, 0, 0)
        ELSE IF i = 1 THEN QuietBar(i, ov)
        ELSE QuietBar(i, BaseVolume)]

IdlePattern ==
    /\ pt_fetched = NoDf
    /\ df_recent = NoDf
    /\ is_52w_high = FALSE
    /\ pattern = ""
    /\ pt_pc = "idle"

InitPattern ==
    /\ \/ pt_fetched = NoDf
       \/ \E n \in 0..MaxBars, ov \in OldestVolumes, pk \in PrevKinds,
             c \in TodayCloses, oo \in OpenOffsets, us \in UpperShadows,
             ls \in LowerShadows, v \in TodayVolumes :
             pt_fetched = Df(FetchedRows(n, ov, pk, TodayBar(n, c, oo, us, ls, v)))
    /\ df_recent = NoDf
    /\ is_52w_high \in BOOLEAN
    /\ pattern = ""
    /\ pt_pc = "fetched"

\* df_recent = get_recent_ohlcv(ticker, trade_date)
GetRecentOhlcv ==
    /\ pt_pc = "fetched"
    /\ df_recent' = get_recent_ohlcv(pt_fetched)
    /\ pt_pc' = "filtered"
    /\ UNCHANGED <<pt_fetched, is_52w_high, pattern>>
    /\ UNCHANGED notPattern

\* pattern = classify_breakout_pattern(df_recent, is_52w_high)
ClassifyPattern ==
    /\ pt_pc = "filtered"
    /\ pattern' = classify_breakout_pattern(df_recent, is_52w_high)
    /\ pt_pc' = "classified"
    /\ UNCHANGED <<pt_fetched, df_recent, is_52w_high>>
    /\ UNCHANGED notPattern

NextPattern == GetRecentOhlcv \/ ClassifyPattern

-----------------------------------------------------------------------------
(* Composite band.  The composite is in tenths (40.0 is Num(400)).  The    *)
(* source's Korean band names are written with the specification's names.  *)

\* _ms_composite_band with a strict first comparison
ms_composite_band_strict(c) ==
    IF pd_isna(c) THEN "insufficient data"
    ELSE IF c.v > 400 THEN "strong bullish"
    ELSE IF c.v >= 200 THEN "bullish"
    ELSE IF c.v >= 50 THEN "weakly bullish"
    ELSE IF c.v <= -400 THEN "strong bearish"
    ELSE IF c.v <= -200 THEN "bearish"
    ELSE IF c.v <= -50 THEN "weakly bearish"
    ELSE "neutral"

\* def _ms_composite_band(c)   (report_generator.py)
ms_composite_band(c) ==
    IF pd_isna(c) THEN "insufficient data"
    ELSE IF c.v >= 400 THEN "strong bullish"
    ELSE IF c.v >= 200 THEN "bullish"
    ELSE IF c.v >= 50 THEN "weakly bullish"
    ELSE IF c.v <= -400 THEN "strong bearish"
    ELSE IF c.v <= -200 THEN "bearish"
    ELSE IF c.v <= -50 THEN "weakly bearish"
    ELSE "neutral"

\* def composite_band(c)   (marketSummary.py)
composite_band(c) ==
    IF pd_isna(c) THEN "insufficient data"
    ELSE IF c.v >= 400 THEN "strong bullish"
    ELSE IF c.v >= 200 THEN "bullish"
    ELSE IF c.v >= 50 THEN "weakly bullish"
    ELSE IF c.v <= -400 THEN "strong bearish"
    ELSE IF c.v <= -200 THEN "bearish"
    ELSE IF c.v <= -50 THEN "weakly bearish"
    ELSE "neutral"

\* composites from -MaxComposite to MaxComposite tenths, NaN and None
MaxComposite == 450

IdleBand ==
    /\ bd_c = NaN
    /\ bd_band = ""
    /\ bd_band_ms = ""
    /\ bd_pc = "idle"

InitBand ==
    /\ bd_c \in {None, NaN} \cup {Num(n) : n \in (-MaxComposite)..MaxComposite}
    /\ bd_band = ""
    /\ bd_band_ms = ""
    /\ bd_pc = "start"

\* band = _ms_composite_band(c)
CallMsCompositeBand ==
    /\ bd_pc = "start"
    /\ bd_band' = ms_composite_band(bd_c)
    /\ bd_pc' = "banded"
    /\ UNCHANGED <<bd_c, bd_band_ms>>
    /\ UNCHANGED notBand

\* band = composite_band(c)
CallCompositeBand ==
    /\ bd_pc = "banded"
    /\ bd_band_ms' = composite_band(bd_c)
    /\ bd_pc' = "done"
    /\ UNCHANGED <<bd_c, bd_band>>
    /\ UNCHANGED notBand

NextBand == CallMsCompositeBand \/ CallCompositeBand

-----------------------------------------------------------------------------
(* Composite market-condition index.  Index levels and flow proxies are    *)
(* integers; percentages and scores are fixed-point numbers in hundredths  *)
(* (1.0 is Num(100)), each column rounded to the nearest hundredth.        *)
(* A frame is represented by its rows in index (date) order, which         *)
(* df.copy().sort_index() leaves as they are.  A quotient, a sum or a clip *)
(* of a NaN is NaN, as in pandas.                                          *)

IsNum(x) == x.tag = "num"

\* the nearest integer to a / b, for b > 0
FDiv(a, b) == (2 * a + b) \div (2 * b)

\* Series.clip(lo, hi)
Clip(x, lo, hi) == Max2(lo, Min2(hi, x))

MsRow(index, flow, fx, rate) ==
    [Index |-> index, Flow_Proxy |-> flow, FX_20d |-> fx, Rate_20d |-> rate]

\* Series.rolling(w) has a value at row t when the w rows ending at t exist
\* and are all numbers
WindowFull(col, t, w) == t >= w /\ \A i \in (t - w + 1)..t : IsNum(col[i])

\* the sum of rows a..b, added up by halves
RECURSIVE WindowSum(_, _, _)
WindowSum(col, a, b) ==
    IF a > b THEN 0
    ELSE IF a = b THEN col[b].v
    ELSE WindowSum(col, a, (a + b) \div 2) + WindowSum(col, (a + b) \div 2 + 1, b)

RECURSIVE WindowMin(_, _, _)
WindowMin(col, a, b) ==
    IF a = b THEN col[b].v
    ELSE Min2(WindowMin(col, a, (a + b) \div 2), WindowMin(col, (a + b) \div 2 + 1, b))

RECURSIVE WindowMax(_, _, _)
WindowMax(col, a, b) ==
    IF a = b THEN col[b].v
    ELSE Max2(WindowMax(col, a, (a + b) \div 2), WindowMax(col, (a + b) \div 2 + 1, b))

\* Series.rolling(w).mean() at row t, as the sum of the window (mean * w)
rolling_sum(col, t, w) ==
    IF WindowFull(col, t, w) THEN Num(WindowSum(col, t - w + 1, t)) ELSE NaN

\* Series.rolling(w).min() / .max() at row t
rolling_min(col, t, w) ==
    IF WindowFull(col, t, w) THEN Num(WindowMin(col, t - w + 1, t)) ELSE NaN
rolling_max(col, t, w) ==
    IF WindowFull(col, t, w) THEN Num(WindowMax(col, t - w + 1, t)) ELSE NaN

\* (df["Index"] / ma - 1) * 100 at row t, ma = sum / w
PctOverMean(x, sum, w) ==
    IF IsNum(x) /\ IsNum(sum) THEN Num(FDiv(x.v * w * 10000, sum.v) - 10000) ELSE NaN

\* base = df["Flow_Proxy"].abs().rolling(20).mean().clip(lower=10)
\* df["Flow_score"] = (df["Flow_Proxy"] / base) * 100
Flow_score_at(flow, absflow, t) ==
    LET sum == rolling_sum(absflow, t, 20) IN
    IF IsNum(flow[t]) /\ IsNum(sum)
    THEN Num(FDiv(flow[t].v * 20 * 10000, Max2(sum.v, 10 * 20)))
    ELSE NaN

\* df["Trend_score"] = ws * df["trend_s"] + wl * df["trend_l"]   (ws, wl in tenths)
Trend_score_of(ts, tl, ws, wl) ==
    IF IsNum(ts) /\ IsNum(tl) THEN Num(FDiv(ws * ts.v + wl * tl.v, 10)) ELSE NaN

Trend_score_at(index, t, trend_s, trend_l, ws, wl) ==
    Trend_score_of(PctOverMean(index[t], rolling_sum(index, t, trend_s), trend_s),
                   PctOverMean(index[t], rolling_sum(index, t, trend_l), trend_l),
                   ws, wl)

\* rng = (high - low).replace(0, np.nan)
\* df["ClosePos"] = (df["Index"] - low) / rng * 100
ClosePos_of(x, low, high) ==
    IF IsNum(x) /\ IsNum(low) /\ IsNum(high) /\ high.v - low.v # 0
    THEN Num(FDiv((x.v - low.v) * 10000, high.v - low.v))
    ELSE NaN

\* 0.7 * ((ClosePos - 50) / 50 * 100) + 0.3 * (MA_gap.clip(-10, 10) / 10 * 100)
Breadth_score_of(close_pos, ma_gap) ==
    IF IsNum(close_pos) /\ IsNum(ma_gap)
    THEN Num(FDiv(7 * ((close_pos.v - 5000) * 2)
                    + 3 * (Clip(ma_gap.v, -1000, 1000) * 10), 10))
    ELSE NaN

Breadth_score_at(index, t) ==
    Breadth_score_of(
        ClosePos_of(index[t], rolling_min(index, t, 60), rolling_max(index, t, 60)),
        PctOverMean(index[t], rolling_sum(index, t, 20), 20))

\* Series.bfill() at row t: the first value at or after t that is not missing
RECURSIVE bfill_at(_, _)
bfill_at(col, t) ==
    IF t > Len(col) THEN NaN
    ELSE IF ~pd_isna(col[t]) THEN col[t]
    ELSE bfill_at(col, t + 1)

\* Series.ffill() at row t: the last value at or before t that is not missing
RECURSIVE ffill_at(_, _)
ffill_at(col, t) ==
    IF t = 0 THEN NaN
    ELSE IF ~pd_isna(col[t]) THEN col[t]
    ELSE ffill_at(col, t - 1)

\* no fillna: a value that is still missing stays missing
fillna_skipped(x) == x

\* Series.fillna(0)
fillna0(x) == IF pd_isna(x) THEN Num(0) ELSE x

\* -(0.6 * fx + 0.4 * rt)
Macro_score_of(fx, rt) ==
    IF IsNum(fx) /\ IsNum(rt) THEN Num(-FDiv(6 * fx.v + 4 * rt.v, 10)) ELSE NaN

\* the macro block without its else branch: no macro columns, no macro score
Macro_score_no_default(fx_col, rt_col, has_macro, t) ==
    IF has_macro
    THEN Macro_score_of(fillna0(ffill_at(fx_col, t)), fillna0(ffill_at(rt_col, t)))
    ELSE NaN

\* if "FX_20d(%)" in df.columns and "Rate_20d" in df.columns: ffill, fillna(0),
\* -(0.6 fx + 0.4 rt); else 0.0
Macro_score_at(fx_col, rt_col, has_macro, t) ==
    IF has_macro
    THEN Macro_score_of(fillna0(ffill_at(fx_col, t)), fillna0(ffill_at(rt_col, t)))
    ELSE Num(0)

\* the rescaling without the clip
Strength_unclipped(x, lim) == IF IsNum(x) THEN Num(FDiv(x.v * 100 * 100, lim)) ELSE NaN

\* x.clip(-lim, lim) / lim * 100   (lim in hundredths)
Strength(x, lim) == IF IsNum(x) THEN Num(FDiv(Clip(x.v, -lim, lim) * 100 * 100, lim)) ELSE NaN

\* the KOSDAQ tuple with the macro weight of the KOSPI tuple
CompositeWeights_macro_shared(name) ==
    IF name = "KOSPI" THEN <<35, 25, 25, 15>> ELSE <<40, 20, 25, 25>>

\* Composite weights (flow, trend, macro, breadth), in percent
CompositeWeights(name) ==
    IF name = "KOSPI" THEN <<35, 25, 25, 15>> ELSE <<40, 20, 15, 25>>

\* w[0] * flow + w[1] * trend + w[2] * macro + w[3] * breadth
Composite_of(fs, ts, me, mh, w) ==
    IF IsNum(fs) /\ IsNum(ts) /\ IsNum(me) /\ IsNum(mh)
    THEN Num(FDiv(w[1] * fs.v + w[2] * ts.v + w[3] * me.v + w[4] * mh.v, 100))
    ELSE NaN

\* one row of the frame returned by _ms_compute_scores
ScoreRow(Flow_score, Trend_score, Breadth_score, Macro_score, name) ==
    [Flow_score |-> Flow_score,
     Trend_score |-> Trend_score,
     Breadth_score |-> Breadth_score,
     Macro_score |-> Macro_score,
     flow_strength |-> Strength(Flow_score, 6000),
     trend_strength |-> Strength(Trend_score, 2000),
     macro_effect |-> Strength(Macro_score, 500),
     market_health |-> Breadth_score,
     Composite |-> Composite_of(Strength(Flow_score, 6000), Strength(Trend_score, 2000),
                                Strength(Macro_score, 500), Breadth_score,
                                CompositeWeights(name))]

ScoreRows(index, flow, absflow, fx_col, rt_col, has_macro, trend_s, trend_l, ws, wl, name) ==
    [t \in 1..Len(index) |->
        ScoreRow(Flow_score_at(flow, absflow, t),
                 Trend_score_at(index, t, trend_s, trend_l, ws, wl),
                 Breadth_score_at(index, t),
                 Macro_score_at(fx_col, rt_col, has_macro, t),
                 name)]

AbsVal(x) == IF IsNum(x) THEN Num(Abs(x.v)) ELSE x

\* def _ms_compute_scores(df, trend_s, trend_l, ws, wl, name)
ms_compute_scores(df, trend_s, trend_l, ws, wl, name) ==
    ScoreRows([t \in 1..Len(df.rows) |-> df.rows[t].Index],
              [t \in 1..Len(df.rows) |-> df.rows[t].Flow_Proxy],
              [t \in 1..Len(df.rows) |-> AbsVal(df.rows[t].Flow_Proxy)],
              [t \in 1..Len(df.rows) |-> df.rows[t].FX_20d],
              [t \in 1..Len(df.rows) |-> df.rows[t].Rate_20d],
              df.macro, trend_s, trend_l, ws, wl, name)

\* trend_s, trend_l, ws (tenths), wl (tenths) of the two calls
TrendParams(name) ==
    IF name = "KOSPI" THEN <<20, 60, 5, 5>> ELSE <<10, 30, 6, 4>>

\* ---- generate_market_summary_report for one market ----
\* The joined frame grows by one trading day per run; the row of day t is
\* fixed by the scenario that Init chooses.

MaxDays == 62
BaseIndex == 200

IndexShapes == {"flat", "rise", "fall", "surge", "wave"}
IndexGapDays == {0, 2}
FlowShapes == {"none", "inflow", "mixed"}
MacroKinds == {"absent", "full", "gappy", "shock"}

IndexAt(shape, gap, t) ==
    IF t = gap THEN NaN
    ELSE CASE shape = "flat" -> Num(BaseIndex)
           [] shape = "rise" -> Num(BaseIndex + t)
           [] shape = "fall" -> Num(BaseIndex + 100 - t)
           [] shape = "surge" -> Num(IF t < 60 THEN BaseIndex + (t % 2) ELSE BaseIndex + 80)
           [] shape = "wave" -> Num(BaseIndex + 10 * (t % 7))

FlowAt(shape, t) ==
    CASE shape = "none" -> Num(0)
      [] shape = "inflow" -> Num(50)
      [] shape = "mixed" -> Num(IF t % 2 = 0 THEN 30 ELSE -5)

FxAt(kind, t) ==
    CASE kind = "full" -> Num(120)
      [] kind = "gappy" -> IF t % 3 = 0 THEN Num(-240) ELSE NaN
      [] kind = "shock" -> Num(900)
      [] OTHER -> NaN

RateAt(kind, t) ==
    CASE kind = "full" -> Num(-30)
      [] kind = "gappy" -> IF t % 4 = 0 THEN Num(20) ELSE NaN
      [] kind = "shock" -> Num(60)
      [] OTHER -> NaN

RowAt(scn, t) ==
    MsRow(IndexAt(scn.index, scn.gap, t), FlowAt(scn.flow, t),
          FxAt(scn.macro, t), RateAt(scn.macro, t))

Scenarios ==
    [name : {"KOSPI", "KOSDAQ"}, index : IndexShapes, gap : IndexGapDays,
     flow : FlowShapes, macro : MacroKinds]

IdleComposite ==
    /\ ms_scn = [name |-> "KOSPI", index |-> "flat", gap |-> 0, flow |-> "none",
                 macro |-> "absent"]
    /\ ms_df = [macro |-> FALSE, rows |-> <<>>]
    /\ ms_out = <<>>
    /\ ms_pc = "idle"

InitComposite ==
    /\ ms_scn \in Scenarios
    /\ ms_df = [macro |-> (ms_scn.macro # "absent"), rows |-> <<>>]
    /\ ms_out = <<>>
    /\ ms_pc = "load"

\* df = df_idx.join(df_flow, how="inner"); df = df.join(df_macro, how="left")
\* when df_macro is not None: the frame of the next trading day's run
LoadFrame ==
    /\ ms_pc = "load"
    /\ Len(ms_df.rows) < MaxDays
    /\ ms_df' = [ms_df EXCEPT !.rows = Append(@, RowAt(ms_scn, Len(@) + 1))]
    /\ ms_pc' = "compute"
    /\ UNCHANGED <<ms_scn, ms_out>>
    /\ UNCHANGED notComposite

\* df = _ms_compute_scores(df, trend_s=.., trend_l=.., ws=.., wl=.., name=..)
ComputeScores ==
    /\ ms_pc = "compute"
    /\ LET tp == TrendParams(ms_scn.name) IN
         ms_out' = ms_compute_scores(ms_df, tp[1], tp[2], tp[3], tp[4], ms_scn.name)
    /\ ms_pc' = "load"
    /\ UNCHANGED <<ms_scn, ms_df>>
    /\ UNCHANGED notComposite

NextComposite == LoadFrame \/ ComputeScores

-----------------------------------------------------------------------------
(* Accumulation detail of one security.  Prices, net volumes and market    *)
(* capitalisation are integers; the strength score is in hundredths, as    *)
(* round(.., 2) leaves it.                                                 *)

SUPPLY_FLOW_WINDOW_DAYS == 7

Calendar == 1..SUPPLY_FLOW_WINDOW_DAYS

\* closes.notna().sum()
NotnaCount(col) == Cardinality({t \in 1..Len(col) : ~pd_isna(col[t])})

\* closes.ffill()
ffill(col) == [t \in 1..Len(col) |-> ffill_at(col, t)]

\* closes.isna().any()
AnyNa(col) == \E t \in 1..Len(col) : pd_isna(col[t])

\* vol_raw.empty: the frame has no row
VolEmpty(vol_raw) == \A d \in Calendar : vol_raw.rows[d] = None

\* vol_raw.reindex(calendar).fillna(0.0)[column] on day d
VolColumn(vol_raw, column, d) ==
    IF vol_raw.rows[d] = None THEN 0 ELSE vol_raw.rows[d][column]

\* flows = (inst + fore) * closes
Flows(inst, fore, closes) ==
    [d \in Calendar |-> (inst[d] + fore[d]) * closes[d].v]

\* flows.iloc[-n:].sum()
RECURSIVE SumLast(_, _)
SumLast(flows, n) ==
    IF n = 0 THEN 0 ELSE flows[Len(flows) - n + 1] + SumLast(flows, n - 1)

\* the flag with a day of zero flow counted as a buying day
premium_flag_nonneg(flows) ==
    \A d \in (Len(flows) - 2)..Len(flows) : flows[d] >= 0

\* last3 = flows.iloc[-3:]; premium_flag = bool((last3 > 0).all())
premium_flag_of(flows) ==
    \A d \in (Len(flows) - 2)..Len(flows) : flows[d] > 0

\* strength_raw * mcap: pct = tot / mcap * 100 for mcap # 0
StrengthRawTimesMcap(tot_1, tot_3, tot_5, flag, mcap) ==
    (40 * tot_3 + 30 * tot_1 + 20 * tot_5) * 100 + (IF flag THEN 10 * mcap ELSE 0)

\* the score without min(max(.., 0.0), 100.0)
supply_strength_unclipped(tot_1, tot_3, tot_5, flag, mcap) ==
    IF mcap = 0 THEN (IF flag THEN 1000 ELSE 0)
    ELSE LET raw == StrengthRawTimesMcap(tot_1, tot_3, tot_5, flag, mcap) IN
         IF raw >= 0 THEN FDiv(raw * 100, mcap) ELSE -FDiv(-raw * 100, mcap)

\* strength = round(min(max(strength_raw, 0.0), 100.0), 2), in hundredths;
\* pct*_mcap is 0.0 when mcap is 0
supply_strength(tot_1, tot_3, tot_5, flag, mcap) ==
    IF mcap = 0 THEN (IF flag THEN 1000 ELSE 0)
    ELSE LET raw == StrengthRawTimesMcap(tot_1, tot_3, tot_5, flag, mcap) IN
         IF raw <= 0 THEN 0
         ELSE IF raw >= 100 * mcap THEN 10000
         ELSE FDiv(raw * 100, mcap)

\* the part of the returned dict that the score is made of
SupplyDetail(flows, mcap) ==
    [tag |-> "dict",
     tot_1 |-> SumLast(flows, 1),
     tot_3 |-> SumLast(flows, 3),
     tot_5 |-> SumLast(flows, 5),
     mcap |-> mcap,
     premium_flag |-> premium_flag_of(flows),
     strength |-> supply_strength(SumLast(flows, 1), SumLast(flows, 3),
                                  SumLast(flows, 5), premium_flag_of(flows), mcap)]

\* def _supply_fetch_detail(row, trade_dates, calendar, fdr_start, fdr_end)
supply_fetch_detail(row, price_all, vol_raw) ==
    IF price_all = None THEN None
    ELSE IF NotnaCount(price_all.Close) < 6 THEN None
    ELSE IF AnyNa(ffill(price_all.Close)) THEN None
    ELSE IF VolEmpty(vol_raw)
         THEN SupplyDetail(Flows([d \in Calendar |-> 0], [d \in Calendar |-> 0],
                                 ffill(price_all.Close)), row.mcap)
    ELSE IF ~vol_raw.columns THEN None
    ELSE SupplyDetail(Flows([d \in Calendar |-> VolColumn(vol_raw, "inst", d)],
                            [d \in Calendar |-> VolColumn(vol_raw, "fore", d)],
                            ffill(price_all.Close)), row.mcap)

\* ---- inputs ----
\* market capitalisations of listed rows (get_all keeps rows with mcap > 0)
McapValues == {1000, 3000}

\* price windows on the calendar: complete, one gap, a missing first day, two
\* gaps, a price change
CloseWindows ==
    { <<Num(1), Num(1), Num(1), Num(1), Num(1), Num(1), Num(1)>>,
      <<Num(1), NaN, Num(1), Num(1), Num(1), Num(1), Num(1)>>,
      <<NaN, Num(1), Num(1), Num(1), Num(1), Num(1), Num(1)>>,
      <<Num(1), NaN, NaN, Num(1), Num(1), Num(1), Num(1)>>,
      <<Num(1), Num(1), Num(1), Num(1), Num(1), Num(2), NaN>> }

PriceFrames == {None} \cup {[Close |-> w] : w \in CloseWindows}

\* one day's (institutions, foreigners) net volumes, or no row for the day
VolRow(inst, fore) == [inst |-> inst, fore |-> fore]
EarlyRows == {None, VolRow(-1, -3), VolRow(4, 1)}
LateRows == {None, VolRow(-1, -3), VolRow(2, -2), VolRow(3, -1), VolRow(1, 2), VolRow(5, 0)}

VolFrames ==
    {[columns |-> c, rows |-> r] :
        c \in BOOLEAN,
        r \in {<<None, None, e3, e4, l5, l6, l7>> :
                   e3 \in EarlyRows, e4 \in EarlyRows,
                   l5 \in LateRows, l6 \in LateRows, l7 \in LateRows}}

IdleSupply ==
    /\ sf_row = [mcap |-> 1000]
    /\ sf_price = None
    /\ sf_vol = None
    /\ sf_out = None
    /\ sf_pc = "idle"

InitSupply ==
    /\ sf_row \in [mcap : McapValues]
    /\ sf_price = None
    /\ sf_vol = None
    /\ sf_out = None
    /\ sf_pc = "start"

\* info = _supply_fetch_detail(row, trade_dates, calendar, fdr_start, fdr_end)
SupplyFetchDetail ==
    /\ sf_pc = "start"
    /\ \E price_all \in PriceFrames, vol_raw \in VolFrames :
         /\ sf_price' = price_all
         /\ sf_vol' = vol_raw
         /\ sf_out' = supply_fetch_detail(sf_row, price_all, vol_raw)
    /\ sf_pc' = "done"
    /\ UNCHANGED sf_row
    /\ UNCHANGED notSupply

NextSupply == SupplyFetchDetail

-----------------------------------------------------------------------------
(* Percentage return.  Observations are integers; a return is in           *)
(* hundredths of a percent (1.0 % is Num(100)), rounded to the nearest.     *)

\* what a float division by zero raises
Raised == [tag |-> "ZeroDivisionError", v |-> 0]

\* the nearest integer to n / d, for d # 0 of either sign
RDiv(n, d) ==
    IF (n < 0) = (d < 0) THEN FDiv(Abs(n), Abs(d)) ELSE -FDiv(Abs(n), Abs(d))

\* (a / b - 1.0) * 100.0
ReturnPct(a, b) == IF b = 0 THEN Raised ELSE Num(RDiv(10000 * (a - b), b))

\* pct without the b == 0 test
pct_no_zero_test(a, b) ==
    IF isnan(safe_float(a)) \/ isnan(safe_float(b)) THEN NaN
    ELSE ReturnPct(safe_float(a).v, safe_float(b).v)

\* def pct(a, b)
pct(a, b) ==
    IF isnan(safe_float(a)) \/ isnan(safe_float(b)) \/ safe_float(b).v = 0 THEN NaN
    ELSE ReturnPct(safe_float(a).v, safe_float(b).v)

MaxObservation == 6

Observations ==
    {None, NaN} \cup {Num(n) : n \in (-MaxObservation)..MaxObservation}

IdlePct ==
    /\ pc_a = NaN
    /\ pc_b = NaN
    /\ pc_out = NaN
    /\ pc_pc = "idle"

InitPct ==
    /\ pc_a \in Observations
    /\ pc_b \in Observations
    /\ pc_out = NaN
    /\ pc_pc = "start"

\* pct(a, b)
CallPct ==
    /\ pc_pc = "start"
    /\ pc_out' = pct(pc_a, pc_b)
    /\ pc_pc' = "done"
    /\ UNCHANGED <<pc_a, pc_b>>
    /\ UNCHANGED notPct

NextPct == CallPct

-----------------------------------------------------------------------------
(* Futures signals: the loop over FUTURES of compute_global_signals.  A    *)
(* frame is NoDf (safe_fetch returned None) or Df(closes), the Close       *)
(* column in index order; closes are integers or NaN.                       *)

\* FUTURES = {"ES": {"main": "ES=F", "alt": "MES=F"}, "NQ": {...}}
FUTURES ==
    [ES |-> [main |-> "ES=F", alt |-> "MES=F"],
     NQ |-> [main |-> "NQ=F", alt |-> "MNQ=F"]]

\* the signals of the loop in the order in which the code computes them;
\* back: the bar that last_close reads as the baseline, which is also the
\* number of bars the code asks for
FuturesSignals ==
    << [key |-> "ES_ret_d", name |-> "ES", interval |-> "1d", back |-> 2],
       [key |-> "ES_ret_4h", name |-> "ES", interval |-> "60m", back |-> 4],
       [key |-> "NQ_ret_d", name |-> "NQ", interval |-> "1d", back |-> 2],
       [key |-> "NQ_ret_4h", name |-> "NQ", interval |-> "60m", back |-> 4] >>

\* def last_close(df, n): float(df["Close"].iloc[-n]), nan on any exception
last_close(df, n) ==
    IF df.none \/ Len(df.rows) < n THEN NaN ELSE df.rows[Len(df.rows) - n + 1]

\* a fallback fetch after every primary fetch
TooShort_always(df, n) == TRUE

\* df is None or len(df) < n
TooShort(df, n) == df.none \/ Len(df.rows) < n

\* pct(last_close(df), last_close(df, n)) if df is not None and len(df) >= n else np.nan
ret_of(df, n) ==
    IF ~df.none /\ Len(df.rows) >= n THEN pct(last_close(df, 1), last_close(df, n)) ELSE NaN

\* what safe_fetch can return: None, or a frame of any length (empty after
\* dropna(how="all") included) whose closes may be missing or 0
FetchedCloses ==
    { <<>>,
      <<Num(100)>>,
      <<Num(100), Num(102)>>,
      <<Num(0), Num(100)>>,
      <<NaN, Num(100)>>,
      <<Num(100), Num(100), Num(100)>>,
      <<Num(100), Num(101), Num(101), Num(102)>>,
      <<Num(102), Num(100), NaN, Num(100)>> }

FetchedFrames == {NoDf} \cup {Df(r) : r \in FetchedCloses}

\* one call of safe_fetch: for which signal, which ticker, and whether the
\* frame it returned was long enough for the signal
FetchCall(sig, ticker, df) ==
    [key |-> sig.key, ticker |-> ticker, interval |-> sig.interval,
     enough |-> (~df.none /\ Len(df.rows) >= sig.back)]

IdleFutures ==
    /\ fs_i = 0
    /\ fs_df = NoDf
    /\ fs_log = <<>>
    /\ fs_signals = <<>>
    /\ fs_pc = "idle"

InitFutures ==
    /\ fs_i = 1
    /\ fs_df = NoDf
    /\ fs_log = <<>>
    /\ fs_signals = <<>>
    /\ fs_pc = "fetch_main"

\* df = safe_fetch(tick["main"], ..)
FetchMain ==
    /\ fs_pc = "fetch_main"
    /\ \E df \in FetchedFrames :
         /\ fs_df' = df
         /\ fs_log' = Append(fs_log, FetchCall(FuturesSignals[fs_i],
                                               FUTURES[FuturesSignals[fs_i].name].main, df))
    /\ fs_pc' = "fetched_main"
    /\ UNCHANGED <<fs_i, fs_signals>>
    /\ UNCHANGED notFutures

\* if df is None or len(df) < n: df = safe_fetch(tick["alt"], ..)
FetchAlt ==
    /\ fs_pc = "fetched_main"
    /\ TooShort(fs_df, FuturesSignals[fs_i].back)
    /\ \E df \in FetchedFrames :
         /\ fs_df' = df
         /\ fs_log' = Append(fs_log, FetchCall(FuturesSignals[fs_i],
                                               FUTURES[FuturesSignals[fs_i].name].alt, df))
    /\ fs_pc' = "fetched_alt"
    /\ UNCHANGED <<fs_i, fs_signals>>
    /\ UNCHANGED notFutures

\* signals[key] = {"value": ret, ..}, then the next signal of the loop
EmitSignal ==
    /\ \/ fs_pc = "fetched_alt"
       \/ fs_pc = "fetched_main" /\ ~TooShort(fs_df, FuturesSignals[fs_i].back)
    /\ fs_signals' = Append(fs_signals,
                            [key |-> FuturesSignals[fs_i].key,
                             value |-> ret_of(fs_df, FuturesSignals[fs_i].back)])
    /\ IF fs_i < Len(FuturesSignals)
       THEN fs_i' = fs_i + 1 /\ fs_pc' = "fetch_main"
       ELSE fs_i' = fs_i /\ fs_pc' = "done"
    /\ UNCHANGED <<fs_df, fs_log>>
    /\ UNCHANGED notFutures

NextFutures == FetchMain \/ FetchAlt \/ EmitSignal

-----------------------------------------------------------------------------
(* KOSDAQ signals.  The frame is NoDf or Df(bars); prices are integers,    *)
(* KOSDAQ150_ret_d and KOSDAQ150_ATR5_pct are in hundredths of a percent,   *)
(* KOSDAQ150_long_red is Num(0) or Num(1).                                  *)

\* tr = dfx[["H-L", "H-C", "L-C"]].max(axis=1) of row i (i > 1)
TrueRange(rows, i) ==
    Max2(rows[i].high - rows[i].low,
         Max2(Abs(rows[i].high - rows[i - 1].close), Abs(rows[i].low - rows[i - 1].close)))

\* tr.rolling(5).mean().iloc[-1] * 5: the sum of the last five true ranges
RECURSIVE SumTrueRange(_, _)
SumTrueRange(rows, n) ==
    IF n = 0 THEN 0
    ELSE TrueRange(rows, Len(rows) - n + 1) + SumTrueRange(rows, n - 1)

\* atr5_pct = (atr5 / close_today) * 100.0 if close_today > 0 else np.nan
atr5_pct_of(sum5, close_today) ==
    IF close_today > 0 THEN Num(FDiv(sum5 * 10000, 5 * close_today)) ELSE NaN

\* long_red = int((c < o) and (atr5 > 0) and (today_range >= 1.5 * atr5))
long_red_of(today, sum5) ==
    IF today.close < today.open /\ sum5 > 0 /\ 10 * (today.high - today.low) >= 3 * sum5
    THEN 1 ELSE 0

\* the dict built after the length test
KosdaqSignalsOf(rows) ==
    [k \in KosdaqKeys |->
        Signal(CASE k = "KOSDAQ150_ret_d" ->
                      pct(Num(rows[Len(rows)].close), Num(rows[Len(rows) - 1].close))
                 [] k = "KOSDAQ150_ATR5_pct" ->
                      atr5_pct_of(SumTrueRange(rows, 5), rows[Len(rows)].close)
                 [] k = "KOSDAQ150_long_red" ->
                      Num(long_red_of(rows[Len(rows)], SumTrueRange(rows, 5))))]

\* def compute_kosdaq_signals(), on the frame that safe_fetch returned
compute_kosdaq_signals(df) ==
    IF df.none \/ Len(df.rows) < 6
    THEN [k \in KosdaqKeys |->
             Signal(IF k = "KOSDAQ150_long_red" THEN Num(0) ELSE NaN)]
    ELSE KosdaqSignalsOf(df.rows)

\* ---- inputs ----
MaxKqBars == 8

\* a day without movement, and the shapes of the last two days
CalmBar(d) == Bar(d, 100, 101, 99, 100, 10)

PrevBars(d) ==
    {CalmBar(d), Bar(d, 100, 100, 97, 98, 10), Bar(d, 100, 104, 100, 104, 10)}

LastBars(d) ==
    {CalmBar(d),
     Bar(d, 100, 103, 100, 103, 10),
     Bar(d, 103, 103, 97, 97, 10),
     Bar(d, 100, 100, 99, 99, 10),
     Bar(d, 101, 112, 100, 110, 10),
     Bar(d, 100, 100, 88, 90, 10)}

KqRows(n) ==
    IF n = 1 THEN {<<b>> : b \in LastBars(1)}
    ELSE {[i \in 1..n |-> IF i = n THEN b ELSE IF i = n - 1 THEN p ELSE CalmBar(i)] :
              b \in LastBars(n), p \in PrevBars(n - 1)}

KqFrames == {NoDf, Df(<<>>)} \cup UNION {{Df(r) : r \in KqRows(n)} : n \in 1..MaxKqBars}

IdleKq ==
    /\ kq_df = NoDf
    /\ kq_s = <<>>
    /\ kq_pc = "idle"

InitKq ==
    /\ kq_df = NoDf
    /\ kq_s = <<>>
    /\ kq_pc = "start"

\* kosdaq_signals = compute_kosdaq_signals()
ComputeKosdaqSignals ==
    /\ kq_pc = "start"
    /\ \E df \in KqFrames :
         /\ kq_df' = df
         /\ kq_s' = compute_kosdaq_signals(df)
    /\ kq_pc' = "done"
    /\ UNCHANGED notKq

NextKq == ComputeKosdaqSignals

-----------------------------------------------------------------------------
(* generate_market_summary_report.  A loader returns None or a frame with  *)
(* the rows of a run of trading days lo..hi (hi >= lo: an empty download   *)
(* is returned as None).  The values of a day are those of a fixed         *)
(* scenario per market.                                                    *)

ReportDays == 61

NoFrame == [none |-> TRUE, lo |-> 1, hi |-> 0]
DayFrame(lo, hi) == [none |-> FALSE, lo |-> lo, hi |-> hi]

\* what _ms_load_index can return
IndexFrames ==
    {NoFrame, DayFrame(1, 1), DayFrame(1, 5), DayFrame(1, ReportDays),
     DayFrame(ReportDays + 1, ReportDays + 2)}

\* what _ms_load_etf_flow can return
FlowFrames == {NoFrame, DayFrame(1, 3), DayFrame(1, ReportDays)}

\* what _ms_load_macro can return: None ("absent") or a frame of that kind
ReportMacroKinds == {"absent", "full", "gappy"}

ReportScenario(name) ==
    IF name = "KOSPI"
    THEN [name |-> "KOSPI", index |-> "rise", gap |-> 0, flow |-> "inflow", macro |-> "absent"]
    ELSE [name |-> "KOSDAQ", index |-> "wave", gap |-> 0, flow |-> "mixed", macro |-> "absent"]

\* df_idx.join(df_flow, how="inner"): the days that both frames have
join_inner(idx, flow, name) ==
    [macro |-> FALSE,
     rows |-> [i \in 1..Max2(0, Min2(idx.hi, flow.hi) - Max2(idx.lo, flow.lo) + 1) |->
                  RowAt(ReportScenario(name), Max2(idx.lo, flow.lo) + i - 1)]]

\* df.join(df_macro, how="left"): the rows of df, with the macro columns
join_macro(df, kind) ==
    [macro |-> TRUE,
     rows |-> [i \in 1..Len(df.rows) |->
                  [df.rows[i] EXCEPT !.FX_20d = FxAt(kind, i), !.Rate_20d = RateAt(kind, i)]]]

\* the test without the flow frame
LoadFailed_index_only(idx, flow) == idx.none

\* if df_idx is None or df_flow is None: raise ValueError(...)
LoadFailed(idx, flow) == idx.none \/ flow.none

\* float(x) if pd.notna(x) else None
notna_or_none(x) == IF pd_isna(x) THEN None ELSE x

NotReturned ==
    [kind |-> "pending", kospi_composite |-> None, kosdaq_composite |-> None,
     kospi_band |-> "", kosdaq_band |-> ""]

\* return None
ReturnedNone ==
    [kind |-> "None", kospi_composite |-> None, kosdaq_composite |-> None,
     kospi_band |-> "", kosdaq_band |-> ""]

\* ReportData(html_content, trade_date, metadata), by the metadata of the scores
ReportData(ck, cq) ==
    [kind |-> "ReportData", kospi_composite |-> ck, kosdaq_composite |-> cq,
     kospi_band |-> ms_composite_band(ck), kosdaq_band |-> ms_composite_band(cq)]

\* df.iloc[-1]["Composite"] of the frame scored by _ms_compute_scores
LastComposite(df, name) ==
    LET tp == TrendParams(name) IN
    ms_compute_scores(df, tp[1], tp[2], tp[3], tp[4], name)[Len(df.rows)].Composite

NoLoads == [k_idx |-> NoFrame, k_flow |-> NoFrame, q_idx |-> NoFrame, q_flow |-> NoFrame]
EmptyFrame == [macro |-> FALSE, rows |-> <<>>]

IdleReport ==
    /\ gm_loaded = NoLoads
    /\ gm_df_k = EmptyFrame
    /\ gm_df_q = EmptyFrame
    /\ gm_exc = ""
    /\ gm_result = NotReturned
    /\ gm_pc = "idle"

InitReport ==
    /\ gm_loaded = NoLoads
    /\ gm_df_k = EmptyFrame
    /\ gm_df_q = EmptyFrame
    /\ gm_exc = ""
    /\ gm_result = NotReturned
    /\ gm_pc = "kospi"

\* 1) df_k_idx = _ms_load_index("^KS200"); df_k_flow = _ms_load_etf_flow(ETF_KOSPI_MS)
LoadKospi ==
    /\ gm_pc = "kospi"
    /\ \E idx \in IndexFrames, flow \in FlowFrames :
        /\ gm_loaded' = [gm_loaded EXCEPT !.k_idx = idx, !.k_flow = flow]
        /\ IF LoadFailed(idx, flow)
           THEN gm_exc' = "ValueError" /\ gm_pc' = "except" /\ UNCHANGED gm_df_k
           ELSE gm_df_k' = join_inner(idx, flow, "KOSPI") /\ gm_pc' = "kosdaq"
                /\ UNCHANGED gm_exc
    /\ UNCHANGED <<gm_df_q, gm_result>>
    /\ UNCHANGED notReport

\* 2) df_q_idx = _ms_load_index("^KQ11"); df_q_flow = _ms_load_etf_flow(ETF_KOSDAQ_MS)
LoadKosdaq ==
    /\ gm_pc = "kosdaq"
    /\ \E idx \in IndexFrames, flow \in FlowFrames :
        /\ gm_loaded' = [gm_loaded EXCEPT !.q_idx = idx, !.q_flow = flow]
        /\ IF LoadFailed(idx, flow)
           THEN gm_exc' = "ValueError" /\ gm_pc' = "except" /\ UNCHANGED gm_df_q
           ELSE gm_df_q' = join_inner(idx, flow, "KOSDAQ") /\ gm_pc' = "macro"
                /\ UNCHANGED gm_exc
    /\ UNCHANGED <<gm_df_k, gm_result>>
    /\ UNCHANGED notReport

\* 3) df_macro = _ms_load_macro(); joined when it is not None
LoadMacro ==
    /\ gm_pc = "macro"
    /\ \E kind \in ReportMacroKinds :
        IF kind = "absent"
        THEN UNCHANGED <<gm_df_k, gm_df_q>>
        ELSE /\ gm_df_k' = join_macro(gm_df_k, kind)
             /\ gm_df_q' = join_macro(gm_df_q, kind)
    /\ gm_pc' = "score"
    /\ UNCHANGED <<gm_loaded, gm_exc, gm_result>>
    /\ UNCHANGED notReport

\* 4) - 6) scores, html, metadata; df.iloc[-1] of a frame without rows raises
\* IndexError
ScoreAndBuild ==
    /\ gm_pc = "score"
    /\ IF Len(gm_df_k.rows) = 0 \/ Len(gm_df_q.rows) = 0
       THEN gm_exc' = "IndexError" /\ gm_pc' = "except" /\ UNCHANGED gm_result
       ELSE /\ gm_result' = ReportData(notna_or_none(LastComposite(gm_df_k, "KOSPI")),
                                       notna_or_none(LastComposite(gm_df_q, "KOSDAQ")))
            /\ gm_pc' = "done"
            /\ UNCHANGED gm_exc
    /\ UNCHANGED <<gm_loaded, gm_df_k, gm_df_q>>
    /\ UNCHANGED notReport

\* except Exception as e: ... return None
ReturnNoneOnException ==
    /\ gm_pc = "except"
    /\ gm_result' = ReturnedNone
    /\ gm_pc' = "done"
    /\ UNCHANGED <<gm_loaded, gm_df_k, gm_df_q, gm_exc>>
    /\ UNCHANGED notReport

NextReport == LoadKospi \/ LoadKosdaq \/ LoadMacro \/ ScoreAndBuild \/ ReturnNoneOnException

-----------------------------------------------------------------------------
(* classify_breakout_pattern as a function of its arguments: the window is *)
(* passed as fetched, without the close > 0 and volume > 0 selection of    *)
(* get_recent_ohlcv.                                                       *)

WindowLengths == {4, 5, MaxBars}

IdleClassify ==
    /\ cb_df = NoDf
    /\ cb_high = FALSE
    /\ cb_out = ""
    /\ cb_pc = "idle"

InitClassify ==
    /\ \/ cb_df = NoDf
       \/ \E n \in WindowLengths, ov \in OldestVolumes, pk \in PrevKinds,
             c \in TodayCloses, oo \in OpenOffsets, us \in UpperShadows,
             ls \in LowerShadows, v \in TodayVolumes :
             cb_df = Df(FetchedRows(n, ov, pk, TodayBar(n, c, oo, us, ls, v)))
    /\ cb_high \in BOOLEAN
    /\ cb_out = ""
    /\ cb_pc = "call"

\* classify_breakout_pattern(df_recent, is_52w_high)
CallClassifyBreakoutPattern ==
    /\ cb_pc = "call"
    /\ cb_out' = classify_breakout_pattern(cb_df, cb_high)
    /\ cb_pc' = "returned"
    /\ UNCHANGED <<cb_df, cb_high>>
    /\ UNCHANGED notClassify

NextClassify == CallClassifyBreakoutPattern

-----------------------------------------------------------------------------
(* Delivery: main, process_and_send_report, create_notifier and the        *)
(* notifiers' send.  A dict is a record; an exception that leaves a call   *)
(* is a record with the field raised.  What the network, the file system   *)
(* and the report generators do is chosen by the actions.                  *)

Exc(name) == [raised |-> name]
IsExc(x) == "raised" \in DOMAIN x

\* {"success": .., "message": .., "url": ..}
SendResult(success, message, url) == [success |-> success, message |-> message, url |-> url]

LeafModes == {"github_pages", "slack_file", "telegram", "telegram_channel", "local_only"}

\* the class that create_notifier instantiates for a mode
NotifierClass(mode) ==
    CASE mode = "github_pages" -> "GitHubPagesNotifier"
      [] mode = "slack_file" -> "SlackFileNotifier"
      [] mode = "telegram" -> "TelegramNotifier"
      [] mode = "telegram_channel" -> "TelegramChannelNotifier"
      [] mode = "local_only" -> "LocalFileNotifier"
      [] mode = "composite" -> "CompositeNotifier"

NoNotifier == [cls |-> "", notifiers |-> <<>>]

\* def create_notifier(mode): a notifier, or ValueError for an unknown mode
\* (also for an unknown mode in COMPOSITE_MODES)
create_notifier(mode, composite_modes) ==
    IF mode \in LeafModes THEN [cls |-> NotifierClass(mode), notifiers |-> <<>>]
    ELSE IF mode = "composite"
    THEN IF \A i \in 1..Len(composite_modes) : composite_modes[i] \in LeafModes
         THEN [cls |-> "CompositeNotifier",
               notifiers |-> [i \in 1..Len(composite_modes) |->
                                 NotifierClass(composite_modes[i])]]
         ELSE Exc("ValueError")
    ELSE Exc("ValueError")

\* the paths through the send of a class
SendOutcomes(cls) ==
    CASE cls = "GitHubPagesNotifier" -> {"no_repo", "exception", "slack_ok", "slack_failed"}
      [] cls = "SlackFileNotifier" -> {"uploaded", "SlackApiError", "exception", "handler_raises"}
      [] cls = "LocalFileNotifier" -> {"saved", "exception"}
      [] cls = "TelegramNotifier" -> {"no_token", "sent", "all_failed", "exception"}
      [] cls = "TelegramChannelNotifier" -> {"bad_channel", "sent", "api_error", "exception"}

\* GitHubPagesNotifier.send
github_pages_send(outcome) ==
    CASE outcome = "no_repo" -> SendResult(FALSE, "no repository path", "")
      [] outcome = "exception" -> SendResult(FALSE, "error", "")
      [] outcome = "slack_ok" -> SendResult(TRUE, "uploaded, Slack notified", "web_url")
      [] outcome = "slack_failed" -> SendResult(FALSE, "uploaded, Slack failed", "web_url")

\* SlackFileNotifier.send; os.remove(temp_file) in an except clause can raise
\* again, and that exception leaves send
slack_file_send(outcome) ==
    CASE outcome = "uploaded" -> SendResult(TRUE, "Slack upload done", "file_url")
      [] outcome = "SlackApiError" -> SendResult(FALSE, "Slack upload failed: code", "")
      [] outcome = "exception" -> SendResult(FALSE, "Slack upload failed", "")
      [] outcome = "handler_raises" -> Exc("OSError")

\* LocalFileNotifier.send
local_file_send(outcome) ==
    CASE outcome = "saved" -> SendResult(TRUE, "saved", "file://path")
      [] outcome = "exception" -> SendResult(FALSE, "save failed", "")

\* TelegramNotifier.send
telegram_send(outcome) ==
    CASE outcome = "no_token" -> SendResult(FALSE, "no bot token", "")
      [] outcome = "sent" -> SendResult(TRUE, "Telegram sent", "https://t.me/bot")
      [] outcome = "all_failed" -> SendResult(FALSE, "Telegram failed", "")
      [] outcome = "exception" -> SendResult(FALSE, "Telegram error", "")

\* TelegramChannelNotifier.send
telegram_channel_send(outcome) ==
    CASE outcome = "bad_channel" -> SendResult(FALSE, "bad channel id", "")
      [] outcome = "sent" -> SendResult(TRUE, "channel sent", "https://t.me/channel")
      [] outcome = "api_error" -> SendResult(FALSE, "channel failed", "")
      [] outcome = "exception" -> SendResult(FALSE, "channel error", "")

\* notifier.send(report_data) of a notifier that is no CompositeNotifier
leaf_send(cls, outcome) ==
    CASE cls = "GitHubPagesNotifier" -> github_pages_send(outcome)
      [] cls = "SlackFileNotifier" -> slack_file_send(outcome)
      [] cls = "LocalFileNotifier" -> local_file_send(outcome)
      [] cls = "TelegramNotifier" -> telegram_send(outcome)
      [] cls = "TelegramChannelNotifier" -> telegram_channel_send(outcome)

\* sum(1 for r in results if r["success"])
CountSuccess(rs) == Cardinality({i \in 1..Len(rs) : rs[i].success})

\* success only when every child succeeded
composite_success_all(rs) == CountSuccess(rs) = Len(rs)

\* "success": success_count > 0
composite_success(rs) == CountSuccess(rs) > 0

\* the dict returned by CompositeNotifier.send
composite_result(rs) ==
    [success |-> composite_success(rs), message |-> "n/m sent", results |-> rs]

\* the result appended for a child: its dict, or the error dict when it raised
child_result(r) == IF IsExc(r) THEN SendResult(FALSE, "error", "") ELSE r

\* every result is reported as a success
process_return_always(r) == TRUE

\* what process_and_send_report returns after notifier.send: result["success"],
\* False when send raised
process_return(r) == IF IsExc(r) THEN FALSE ELSE r.success

\* the generators in another order
REPORTS_summary_first ==
    <<"generate_market_summary_report", "generate_premium_stock_report",
      "getUpAndDownReport", "generate_market_supply_report">>

\* the generators that main passes to process_and_send_report, in order
REPORTS ==
    <<"generate_premium_stock_report", "getUpAndDownReport",
      "generate_market_summary_report", "generate_market_supply_report">>

NoResult == [pending |-> TRUE]

\* the record of a finished process_and_send_report call
Processed(name, generated, sent, returned) ==
    [report |-> name, generated |-> generated, sent |-> sent, returned |-> returned]

\* how a send ended, for the record
SendOutcome(r) == IF IsExc(r) THEN "raised" ELSE IF r.success THEN "success" ELSE "failure"

ModeChoices == LeafModes \cup {"composite", "email"}
CompositeModeChoices == {"telegram", "local_only", "slack_file", "email"}
MaxChildren == 2

CompositeModeLists ==
    UNION {[1..n -> CompositeModeChoices] : n \in 0..MaxChildren}

IdleDelivery ==
    /\ DELIVERY_MODE = "telegram"
    /\ COMPOSITE_MODES = <<"telegram", "local_only">>
    /\ notifier = NoNotifier
    /\ dl_i = 0
    /\ dl_report = ""
    /\ dl_calls = <<>>
    /\ results = <<>>
    /\ dl_result = NoResult
    /\ dl_done = <<>>
    /\ success_count = 0
    /\ dl_pc = "idle"

InitDelivery ==
    /\ DELIVERY_MODE \in ModeChoices
    /\ IF DELIVERY_MODE = "composite"
       THEN COMPOSITE_MODES \in CompositeModeLists
       ELSE COMPOSITE_MODES = <<"telegram", "local_only">>
    /\ notifier = NoNotifier
    /\ dl_i = 0
    /\ dl_report = ""
    /\ dl_calls = <<>>
    /\ results = <<>>
    /\ dl_result = NoResult
    /\ dl_done = <<>>
    /\ success_count = 0
    /\ dl_pc = "create"

\* the return of process_and_send_report number i into main:
\* if process_and_send_report(...): success_count += 1
AfterReturn(i, generated, sent, returned) ==
    /\ dl_done' = Append(dl_done, Processed(REPORTS[i], generated, sent, returned))
    /\ success_count' = IF returned THEN success_count + 1 ELSE success_count
    /\ dl_pc' = IF i < Len(REPORTS) THEN "generate" ELSE "summary"

\* main: notifier = create_notifier(DELIVERY_MODE); return when it raises
CreateNotifier ==
    /\ dl_pc = "create"
    /\ IF IsExc(create_notifier(DELIVERY_MODE, COMPOSITE_MODES))
       THEN dl_pc' = "exit" /\ UNCHANGED notifier
       ELSE dl_pc' = "generate" /\ notifier' = create_notifier(DELIVERY_MODE, COMPOSITE_MODES)
    /\ UNCHANGED <<DELIVERY_MODE, COMPOSITE_MODES, dl_i, dl_report, dl_calls, results,
                   dl_result, dl_done, success_count>>
    /\ UNCHANGED notDelivery

\* process_and_send_report: report_data = generator_func(); return False when
\* it is None or when the generator raised
CallGenerator ==
    /\ dl_pc = "generate"
    /\ dl_i' = dl_i + 1
    /\ dl_calls' = <<>>
    /\ results' = <<>>
    /\ dl_result' = NoResult
    /\ \E g \in {"report", "None", "raise"} :
        /\ dl_report' = g
        /\ IF g = "report"
           THEN dl_pc' = "send" /\ UNCHANGED <<dl_done, success_count>>
           ELSE AfterReturn(dl_i + 1, g, "not called", FALSE)
    /\ UNCHANGED <<DELIVERY_MODE, COMPOSITE_MODES, notifier>>
    /\ UNCHANGED notDelivery

\* result = notifier.send(report_data), the notifier no CompositeNotifier
SendLeaf ==
    /\ dl_pc = "send"
    /\ notifier.cls # "CompositeNotifier"
    /\ \E o \in SendOutcomes(notifier.cls) : dl_result' = leaf_send(notifier.cls, o)
    /\ dl_pc' = "sent"
    /\ UNCHANGED <<DELIVERY_MODE, COMPOSITE_MODES, notifier, dl_i, dl_report, dl_calls,
                   results, dl_done, success_count>>
    /\ UNCHANGED notDelivery

\* CompositeNotifier.send: one round of the for loop over self.notifiers
CompositeSendChild ==
    /\ dl_pc = "send"
    /\ notifier.cls = "CompositeNotifier"
    /\ Len(dl_calls) < Len(notifier.notifiers)
    /\ LET child == notifier.notifiers[Len(dl_calls) + 1] IN
        /\ dl_calls' = Append(dl_calls, child)
        /\ \E o \in SendOutcomes(child) :
              results' = Append(results, child_result(leaf_send(child, o)))
    /\ UNCHANGED <<DELIVERY_MODE, COMPOSITE_MODES, notifier, dl_i, dl_report, dl_result,
                   dl_done, success_count, dl_pc>>
    /\ UNCHANGED notDelivery

\* CompositeNotifier.send: the return after the loop
CompositeSendReturn ==
    /\ dl_pc = "send"
    /\ notifier.cls = "CompositeNotifier"
    /\ Len(dl_calls) = Len(notifier.notifiers)
    /\ dl_result' = composite_result(results)
    /\ dl_pc' = "sent"
    /\ UNCHANGED <<DELIVERY_MODE, COMPOSITE_MODES, notifier, dl_i, dl_report, dl_calls,
                   results, dl_done, success_count>>
    /\ UNCHANGED notDelivery

\* process_and_send_report: return True / False by result["success"], False
\* from the except clause when send raised
ProcessReturn ==
    /\ dl_pc = "sent"
    /\ AfterReturn(dl_i, dl_report, SendOutcome(dl_result), process_return(dl_result))
    /\ UNCHANGED <<DELIVERY_MODE, COMPOSITE_MODES, notifier, dl_i, dl_report, dl_calls,
                   results, dl_result>>
    /\ UNCHANGED notDelivery

\* main: the final summary with success_count
MainSummary ==
    /\ dl_pc = "summary"
    /\ dl_pc' = "exit"
    /\ UNCHANGED <<DELIVERY_MODE, COMPOSITE_MODES, notifier, dl_i, dl_report, dl_calls,
                   results, dl_result, dl_done, success_count>>
    /\ UNCHANGED notDelivery

NextDelivery ==
    \/ CreateNotifier \/ CallGenerator \/ SendLeaf \/ CompositeSendChild
    \/ CompositeSendReturn \/ ProcessReturn \/ MainSummary

-----------------------------------------------------------------------------
(* Strategy guide.  The composite is in tenths.  A guide text is the market *)
(* name, the regime that its first sentence names and the advice; the      *)
(* advice is fixed by the regime and is left out.  Regimes carry the names *)
(* of the bands; the text for a missing composite names "data missing".    *)

Guide(market_name, regime) == [market |-> market_name, regime |-> regime]
NoGuide == Guide("", "")

\* _ms_strategy_guide with the neutral interval closed at -5
ms_strategy_guide_neutral_closed(c, market_name) ==
    IF pd_isna(c) THEN Guide(market_name, "data missing")
    ELSE IF c.v >= 400 THEN Guide(market_name, "strong bullish")
    ELSE IF 200 <= c.v /\ c.v < 400 THEN Guide(market_name, "bullish")
    ELSE IF 50 <= c.v /\ c.v < 200 THEN Guide(market_name, "weakly bullish")
    ELSE IF -50 <= c.v /\ c.v < 50 THEN Guide(market_name, "neutral")
    ELSE IF -200 < c.v /\ c.v <= -50 THEN Guide(market_name, "weakly bearish")
    ELSE IF -400 < c.v /\ c.v <= -200 THEN Guide(market_name, "bearish")
    ELSE Guide(market_name, "strong bearish")

\* def _ms_strategy_guide(c, market_name)   (report_generator.py)
ms_strategy_guide(c, market_name) ==
    IF pd_isna(c) THEN Guide(market_name, "data missing")
    ELSE IF c.v >= 400 THEN Guide(market_name, "strong bullish")
    ELSE IF 200 <= c.v /\ c.v < 400 THEN Guide(market_name, "bullish")
    ELSE IF 50 <= c.v /\ c.v < 200 THEN Guide(market_name, "weakly bullish")
    ELSE IF -50 < c.v /\ c.v < 50 THEN Guide(market_name, "neutral")
    ELSE IF -200 < c.v /\ c.v <= -50 THEN Guide(market_name, "weakly bearish")
    ELSE IF -400 < c.v /\ c.v <= -200 THEN Guide(market_name, "bearish")
    ELSE Guide(market_name, "strong bearish")

\* def strategy_guide(c, market_name)   (marketSummary.py)
strategy_guide(c, market_name) ==
    IF pd_isna(c) THEN Guide(market_name, "data missing")
    ELSE IF c.v >= 400 THEN Guide(market_name, "strong bullish")
    ELSE IF 200 <= c.v /\ c.v < 400 THEN Guide(market_name, "bullish")
    ELSE IF 50 <= c.v /\ c.v < 200 THEN Guide(market_name, "weakly bullish")
    ELSE IF -50 < c.v /\ c.v < 50 THEN Guide(market_name, "neutral")
    ELSE IF -200 < c.v /\ c.v <= -50 THEN Guide(market_name, "weakly bearish")
    ELSE IF -400 < c.v /\ c.v <= -200 THEN Guide(market_name, "bearish")
    ELSE Guide(market_name, "strong bearish")

GuideModules == {"report_generator", "marketSummary"}

IdleGuide ==
    /\ sg_module = ""
    /\ sg_c = NaN
    /\ sg_market = ""
    /\ sg_band = ""
    /\ sg_guide = NoGuide
    /\ sg_pc = "idle"

\* ck, cq: None, NaN or a number from -MaxComposite to MaxComposite tenths
InitGuide ==
    /\ sg_module \in GuideModules
    /\ sg_c \in {None, NaN} \cup {Num(n) : n \in (-MaxComposite)..MaxComposite}
    /\ sg_market \in {"KOSPI", "KOSDAQ"}
    /\ sg_band = ""
    /\ sg_guide = NoGuide
    /\ sg_pc = "start"

\* band_k = _ms_composite_band(ck)   /   band_k = composite_band(ck)
CallBandOfMarket ==
    /\ sg_pc = "start"
    /\ sg_band' = IF sg_module = "report_generator" THEN ms_composite_band(sg_c)
                  ELSE composite_band(sg_c)
    /\ sg_pc' = "banded"
    /\ UNCHANGED <<sg_module, sg_c, sg_market, sg_guide>>
    /\ UNCHANGED notGuide

\* guide_k = _ms_strategy_guide(ck, "KOSPI")   /   strategy_guide(ck, "KOSPI")
CallStrategyGuide ==
    /\ sg_pc = "banded"
    /\ sg_guide' = IF sg_module = "report_generator" THEN ms_strategy_guide(sg_c, sg_market)
                   ELSE strategy_guide(sg_c, sg_market)
    /\ sg_pc' = "guided"
    /\ UNCHANGED <<sg_module, sg_c, sg_market, sg_band>>
    /\ UNCHANGED notGuide

NextGuide == CallBandOfMarket \/ CallStrategyGuide

-----------------------------------------------------------------------------
(* generate_premium_stock_report: the detail loop over df_base and the     *)
(* three sections.  A ticker is its position in the market listing (the    *)
(* index of the listing frame, one row per ticker).  Every ticker of       *)
(* df_base closed at PremiumClose, 8% above the previous close.            *)

MaxTickers == 3
MAX_FROM_LOW == 300
PremiumClose == 108

\* the 52-week high and low that get_52w_stats returns (NaN, NaN on failure)
High52Values == {NaN, Num(PremiumClose), Num(PremiumClose + 12)}
Low52Values == {54, 27}

\* (net_f, net_i) of get_net_values; (0, 0) when the lookup fails
NetValues == {<<1, 1>>, <<0, 0>>}

\* the windows that stock.get_market_ohlcv_by_date returns: none, or five
\* rows ending with today's candle on high, average or low volume
PremiumVolumes == {100, 12, 5}
PremiumWindows ==
    {NoDf} \cup {Df(FetchedRows(5, BaseVolume, "traded",
                                TodayBar(5, PremiumClose, 0, 0, 0, v))) : v \in PremiumVolumes}

\* def calc_ai_prob(pattern, is_premium, change_pct, from_low, net_f, net_i)
calc_ai_prob(pat, is_premium, change_pct, from_low, net_f, net_i) ==
    LET base0 == CASE pat = "StrongBreakout" -> 78
                   [] pat = "MildBreakout" -> 68
                   [] pat = "FalseBreakoutUpperShadow" -> 42
                   [] pat = "BreakoutFailureCrash" -> 30
                   [] pat = "Neutral" -> 55
                   [] OTHER -> 50
        base1 == base0 + (IF is_premium THEN 5 ELSE 0)
        base2 == base1 + (IF net_f > 0 /\ net_i > 0 THEN 3 ELSE 0)
        base3 == base2 + (IF from_low < 150 THEN 2 ELSE 0)
        base4 == base3 - (IF change_pct >= 10 THEN 3 ELSE 0)
    IN Max2(10, Min2(95, base4))

\* the dict appended to enriched for one ticker.  from_low is (close / low52
\* - 1) * 100 in whole percent, exact for the values of Low52Values.
EnrichedRow(ticker, close, change, high52, low52, net, fetched) ==
    LET high == close >= high52
        from_low == FDiv((close - low52) * 100, low52)
        is_premium == from_low < MAX_FROM_LOW /\ net[1] > 0 /\ net[2] > 0
        pat == classify_breakout_pattern(get_recent_ohlcv(fetched), high)
    IN [ticker |-> ticker,
        high_52w |-> IF high THEN "Yes" ELSE "",
        pattern |-> pat,
        ai_prob |-> calc_ai_prob(pat, is_premium, change, from_low, net[1], net[2]),
        is_premium |-> is_premium]

\* df[mask]: the rows for which the mask holds, in order
PremiumRows(df) == SelectSeq(df, LAMBDA r : r.is_premium)
WatchRows(df) == SelectSeq(df, LAMBDA r : ~r.is_premium)
BreakoutRows(df) == SelectSeq(df, LAMBDA r : r.pattern \in {"StrongBreakout", "MildBreakout"})

\* df.sort_values(by = AI probability, ascending = False): equal keys keep
\* the order of the frame
RECURSIVE InsertByProb(_, _)
InsertByProb(sorted, r) ==
    IF sorted = <<>> THEN <<r>>
    ELSE IF sorted[Len(sorted)].ai_prob >= r.ai_prob THEN Append(sorted, r)
    ELSE Append(InsertByProb(SubSeq(sorted, 1, Len(sorted) - 1), r), sorted[Len(sorted)])

RECURSIVE sort_by_prob(_)
sort_by_prob(df) ==
    IF df = <<>> THEN <<>>
    ELSE InsertByProb(sort_by_prob(SubSeq(df, 1, Len(df) - 1)), df[Len(df)])

TickersOf(df) == {df[k].ticker : k \in 1..Len(df)}

\* the premium section that keeps the recommended rows
drop_recommended_skipped(premium_df, rec) == premium_df

\* premium_df[~premium_df[ticker].isin(recommend[ticker])] if recommend is
\* not empty, else premium_df.copy()
drop_recommended(premium_df, rec) ==
    IF rec # <<>>
    THEN SelectSeq(premium_df, LAMBDA r : r.ticker \notin TickersOf(rec))
    ELSE premium_df

NoMetadata == [total_stocks |-> 0, recommend_count |-> 0, premium_count |-> 0, watch_count |-> 0]

IdlePremium ==
    /\ df_base = <<>>
    /\ pm_i = 0
    /\ enriched = <<>>
    /\ recommend = <<>>
    /\ premium_main = <<>>
    /\ watch_df = <<>>
    /\ metadata = NoMetadata
    /\ pm_pc = "idle"

\* after step 1: df_base holds 0 to MaxTickers tickers
InitPremium ==
    /\ \E n \in 0..MaxTickers : df_base = [k \in 1..n |-> k]
    /\ pm_i = 1
    /\ enriched = <<>>
    /\ recommend = <<>>
    /\ premium_main = <<>>
    /\ watch_df = <<>>
    /\ metadata = NoMetadata
    /\ pm_pc = "detail"

\* one round of the detail loop: a ticker without 52-week statistics is
\* skipped, every other ticker appends one row
AnalyseTicker ==
    /\ pm_pc = "detail"
    /\ pm_i <= Len(df_base)
    /\ \E high52 \in High52Values, low52 \in Low52Values, net \in NetValues,
          fetched \in PremiumWindows :
          enriched' = IF pd_isna(high52) THEN enriched
                      ELSE Append(enriched,
                                  EnrichedRow(df_base[pm_i], PremiumClose, 8, high52.v,
                                              low52, net, fetched))
    /\ pm_i' = pm_i + 1
    /\ UNCHANGED <<df_base, recommend, premium_main, watch_df, metadata, pm_pc>>
    /\ UNCHANGED notPremium

\* if not base_rows: return None; if not enriched: return None
ReturnNoReport ==
    /\ pm_pc = "detail"
    /\ pm_i > Len(df_base)
    /\ enriched = <<>>
    /\ pm_pc' = "none"
    /\ UNCHANGED <<df_base, pm_i, enriched, recommend, premium_main, watch_df, metadata>>
    /\ UNCHANGED notPremium

\* steps 3 to 8: the split into premium and watch rows, the recommended
\* rows, the premium rows without them, the sorts and the metadata
BuildSections ==
    /\ pm_pc = "detail"
    /\ pm_i > Len(df_base)
    /\ enriched # <<>>
    /\ LET premium_df == PremiumRows(enriched)
           rec == sort_by_prob(BreakoutRows(premium_df))
           main == sort_by_prob(drop_recommended(premium_df, rec))
           watch == sort_by_prob(WatchRows(enriched))
       IN /\ recommend' = rec
          /\ premium_main' = main
          /\ watch_df' = watch
          /\ metadata' = [total_stocks |-> Len(enriched),
                          recommend_count |-> Len(rec),
                          premium_count |-> Len(main),
                          watch_count |-> Len(watch)]
    /\ pm_pc' = "report"
    /\ UNCHANGED <<df_base, pm_i, enriched>>
    /\ UNCHANGED notPremium

NextPremium == AnalyseTicker \/ ReturnNoReport \/ BuildSections

-----------------------------------------------------------------------------
(* Specifications: one per component, the other components idle *)

ScorerStart == InitScorer /\ IdlePattern /\ IdleBand /\ IdleComposite /\ IdleSupply /\ IdlePct /\ IdleFutures /\ IdleKq /\ IdleReport /\ IdleClassify /\ IdleDelivery /\ IdleGuide /\ IdlePremium
SpecScorer == ScorerStart /\ [][NextScorer]_vars

PatternStart == InitPattern /\ IdleScorer /\ IdleBand /\ IdleComposite /\ IdleSupply /\ IdlePct /\ IdleFutures /\ IdleKq /\ IdleReport /\ IdleClassify /\ IdleDelivery /\ IdleGuide /\ IdlePremium
SpecPattern == PatternStart /\ [][NextPattern]_vars

BandStart == InitBand /\ IdleScorer /\ IdlePattern /\ IdleComposite /\ IdleSupply /\ IdlePct /\ IdleFutures /\ IdleKq /\ IdleReport /\ IdleClassify /\ IdleDelivery /\ IdleGuide /\ IdlePremium
SpecBand == BandStart /\ [][NextBand]_vars

CompositeStart == InitComposite /\ IdleScorer /\ IdlePattern /\ IdleBand /\ IdleSupply /\ IdlePct /\ IdleFutures /\ IdleKq /\ IdleReport /\ IdleClassify /\ IdleDelivery /\ IdleGuide /\ IdlePremium
SpecComposite == CompositeStart /\ [][NextComposite]_vars

SupplyStart == InitSupply /\ IdleScorer /\ IdlePattern /\ IdleBand /\ IdleComposite /\ IdlePct /\ IdleFutures /\ IdleKq /\ IdleReport /\ IdleClassify /\ IdleDelivery /\ IdleGuide /\ IdlePremium
SpecSupply == SupplyStart /\ [][NextSupply]_vars

PctStart == InitPct /\ IdleScorer /\ IdlePattern /\ IdleBand /\ IdleComposite /\ IdleSupply /\ IdleFutures /\ IdleKq /\ IdleReport /\ IdleClassify /\ IdleDelivery /\ IdleGuide /\ IdlePremium
SpecPct == PctStart /\ [][NextPct]_vars

FuturesStart == InitFutures /\ IdleScorer /\ IdlePattern /\ IdleBand /\ IdleComposite /\ IdleSupply /\ IdlePct /\ IdleKq /\ IdleReport /\ IdleClassify /\ IdleDelivery /\ IdleGuide /\ IdlePremium
SpecFutures == FuturesStart /\ [][NextFutures]_vars

KqStart == InitKq /\ IdleScorer /\ IdlePattern /\ IdleBand /\ IdleComposite /\ IdleSupply /\ IdlePct /\ IdleFutures /\ IdleReport /\ IdleClassify /\ IdleDelivery /\ IdleGuide /\ IdlePremium
SpecKq == KqStart /\ [][NextKq]_vars

ReportStart == InitReport /\ IdleScorer /\ IdlePattern /\ IdleBand /\ IdleComposite /\ IdleSupply /\ IdlePct /\ IdleFutures /\ IdleKq /\ IdleClassify /\ IdleDelivery /\ IdleGuide /\ IdlePremium
SpecReport == ReportStart /\ [][NextReport]_vars

ClassifyStart == InitClassify /\ IdleScorer /\ IdlePattern /\ IdleBand /\ IdleComposite /\ IdleSupply /\ IdlePct /\ IdleFutures /\ IdleKq /\ IdleReport /\ IdleDelivery /\ IdleGuide /\ IdlePremium
SpecClassify == ClassifyStart /\ [][NextClassify]_vars

DeliveryStart == InitDelivery /\ IdleScorer /\ IdlePattern /\ IdleBand /\ IdleComposite /\ IdleSupply /\ IdlePct /\ IdleFutures /\ IdleKq /\ IdleReport /\ IdleClassify /\ IdleGuide /\ IdlePremium
SpecDelivery == DeliveryStart /\ [][NextDelivery]_vars

GuideStart == InitGuide /\ IdleScorer /\ IdlePattern /\ IdleBand /\ IdleComposite /\ IdleSupply /\ IdlePct /\ IdleFutures /\ IdleKq /\ IdleReport /\ IdleClassify /\ IdleDelivery /\ IdlePremium
SpecGuide == GuideStart /\ [][NextGuide]_vars

PremiumStart == InitPremium /\ IdleScorer /\ IdlePattern /\ IdleBand /\ IdleComposite /\ IdleSupply /\ IdlePct /\ IdleFutures /\ IdleKq /\ IdleReport /\ IdleClassify /\ IdleDelivery /\ IdleGuide
SpecPremium == PremiumStart /\ [][NextPremium]_vars

-----------------------------------------------------------------------------
(* Claims about the rule based scorer *)

KospiScored == sc_pc \in {"kospi_scored", "scored"}
KosdaqScored == sc_pc = "scored"

Unavailable(s, k) == isnan(safe_float(s[k].value))

\* C1: both scores returned by score_kospi and by score_kosdaq are integers
\* in [0,100], whatever the signals are.
C1_ScoresWithinBounds ==
    /\ KospiScored => kospi_out[1] \in 0..100 /\ kospi_out[2] \in 0..100
    /\ KosdaqScored => kosdaq_out[1] \in 0..100 /\ kosdaq_out[2] \in 0..100

\* the downside rules of score_kospi sum to more than 100 and the score is 100
C1_Witness ==
    /\ KospiScored
    /\ kospi_run(KospiRuleCount, global_s, {}).down > 100
    /\ kospi_out[2] = 100

\* C2: a driver list is non-empty exactly when its score is positive.
C2_DriversIffScore ==
    /\ KospiScored => /\ (Len(kospi_out[3]) > 0 <=> kospi_out[1] > 0)
                       /\ (Len(kospi_out[4]) > 0 <=> kospi_out[2] > 0)
    /\ KosdaqScored => /\ (Len(kosdaq_out[3]) > 0 <=> kosdaq_out[1] > 0)
                        /\ (Len(kosdaq_out[4]) > 0 <=> kosdaq_out[2] > 0)

\* both directions at once: upside rules fired, no downside rule fired
C2_Witness ==
    /\ KosdaqScored
    /\ kospi_out[1] > 0 /\ Len(kospi_out[3]) > 1
    /\ kospi_out[2] = 0 /\ Len(kospi_out[4]) = 0
    /\ kosdaq_out[2] > 0 /\ Len(kosdaq_out[4]) > 0

\* C3: a rule one of whose signals is not available (NaN or None) leaves
\* both accumulators and both driver lists as they were, so the result is
\* the result of the scorer without that rule; it is not the result of
\* reading the signal as 0, which differs wherever 0 meets a threshold
\* (VIX_lvl, VIX9D_lvl and MOVE_lvl in score_kospi).
ZeroFires == {"VIX_lvl", "VIX9D_lvl", "MOVE_lvl"}

-----------------------------------------------------------------------------
(* Claims about the pattern classifier *)

Classified == pt_pc = "classified"
Applicable == is_52w_high /\ ~df_recent.none /\ Len(df_recent.rows) >= 5

\* C4: classify_breakout_pattern returns "" whenever is_52w_high is false,
\* the window is absent or the window has fewer than 5 rows, whatever the
\* candle is, and one of the five labels in every other case.
C4_NotApplicableSentinel ==
    Classified =>
        IF Applicable THEN pattern \in PatternLabels ELSE pattern = ""

\* a window of 5 or more rows whose candle is a strong breakout, on a day that
\* is no 52-week high
C4_Witness ==
    /\ Classified
    /\ ~is_52w_high
    /\ ~df_recent.none /\ Len(df_recent.rows) >= 5
    /\ classify_breakout_pattern(df_recent, TRUE) = "StrongBreakout"
    /\ pattern = ""

\* C5: in an applicable window whose close is at least 3% above the previous
\* close and whose volume is at least 1.5 times the trailing volume average,
\* the label is StrongBreakout, never MildBreakout.
C5_StrongBeforeMild ==
    (Classified /\ Applicable) =>
        LET rows == df_recent.rows
            today == rows[Len(rows)]
            prev == rows[Len(rows) - 1]
            avg_rows == IF Len(rows) >= 20 THEN SubSeq(rows, Len(rows) - 19, Len(rows))
                        ELSE rows
        IN (/\ 100 * today.close >= 103 * prev.close
            /\ 2 * today.volume * Len(avg_rows) >= 3 * SumVolume(avg_rows))
           => pattern = "StrongBreakout"

\* a strong breakout in a window of more than 20 rows, where the MildBreakout
\* condition holds as well
C5_Witness ==
    /\ Classified /\ Applicable
    /\ Len(df_recent.rows) > 20
    /\ pattern = "StrongBreakout"
    /\ LET rows == df_recent.rows IN
         /\ rows[Len(rows)].close > rows[Len(rows) - 1].close
         /\ rows[Len(rows)].volume * 20 >= SumVolume(tail(rows, 20))


-----------------------------------------------------------------------------
(* Banding of the composite (values in tenths). *)

Banded == bd_pc = "done"

\* the band table of the composite, by interval
BandOf(v) ==
    CASE v >= 400 -> "strong bullish"
      [] v >= 200 /\ v < 400 -> "bullish"
      [] v >= 50 /\ v < 200 -> "weakly bullish"
      [] v > -50 /\ v < 50 -> "neutral"
      [] v > -200 /\ v <= -50 -> "weakly bearish"
      [] v > -400 /\ v <= -200 -> "bearish"
      [] v <= -400 -> "strong bearish"

\* C6: both banding functions map a composite that is not available (None or
\* NaN) to the insufficient-data band and every available composite to the
\* one band of the table: >= 40 strong bullish, [20, 40) bullish, [5, 20)
\* weakly bullish, (-5, 5) neutral, (-20, -5] weakly bearish, (-40, -20]
\* bearish, <= -40 strong bearish; no available value is banded as
\* insufficient data.
C6_BandTable ==
    Banded =>
        /\ bd_band = bd_band_ms
        /\ pd_isna(bd_c) => bd_band_ms = "insufficient data"
        /\ ~pd_isna(bd_c) =>
              /\ bd_band_ms = BandOf(bd_c.v)
              /\ bd_band_ms # "insufficient data"

\* the boundary -5 has been banded by both functions, as weakly bearish
C6_Witness ==
    /\ Banded
    /\ bd_c = Num(-50)
    /\ bd_band_ms = "weakly bearish"
    /\ bd_band = "weakly bearish"

-----------------------------------------------------------------------------
(* Composite without macro data. *)

Computed == ms_pc = "load" /\ Len(ms_out) > 0

\* C7: when the joined frame has no FX/rate columns, _ms_compute_scores
\* gives every day the macro sub-score 0, and a day's Composite is a number
\* whenever that day's flow, trend and breadth sub-scores are numbers.
C7_MacroAbsentCompositeComputes ==
    (Computed /\ ~ms_df.macro) =>
        \A t \in 1..Len(ms_out) :
            /\ ms_out[t].Macro_score = Num(0)
            /\ (IsNum(ms_out[t].Flow_score) /\ IsNum(ms_out[t].Trend_score)
                  /\ IsNum(ms_out[t].Breadth_score))
               => IsNum(ms_out[t].Composite)

\* a frame without macro columns has been scored and its last day has a
\* Composite, while an earlier day (rolling windows not yet full) has none
C7_Witness ==
    /\ Computed
    /\ ~ms_df.macro
    /\ IsNum(ms_out[Len(ms_out)].Composite)
    /\ ms_out[Len(ms_out)].Composite.v # 0
    /\ ~IsNum(ms_out[1].Composite)

-----------------------------------------------------------------------------
(* Accumulation strength and premium flag. *)

Detailed == sf_pc = "done" /\ sf_out # None

\* the combined institutional + foreign net volume of calendar day d
NetFlow(d) == VolColumn(sf_vol, "inst", d) + VolColumn(sf_vol, "fore", d)

\* C8: the accumulation strength is clip(flow_3d_pct * 40 + flow_1d_pct * 30
\* + flow_5d_pct * 20 + (10 if premium_flag else 0), 0, 100) rounded to two
\* decimals, so it lies in [0, 100]; for flow_1d = 0.5, flow_3d = 1.0,
\* flow_5d = 0.2 with the flag set it is 69.0.  (flow_nd_pct = tot_n / mcap
\* * 100; the score s is in hundredths and the comparisons are multiplied
\* through by mcap > 0.)
C8_StrengthFormula ==
    Detailed =>
        LET s == sf_out.strength
            cap == sf_out.mcap
            raw == 40 * (sf_out.tot_3 * 100) + 30 * (sf_out.tot_1 * 100)
                   + 20 * (sf_out.tot_5 * 100)
                   + (IF sf_out.premium_flag THEN 10 * cap ELSE 0)
        IN /\ 0 <= s /\ s <= 10000
           /\ raw <= 0 => s = 0
           /\ raw >= 100 * cap => s = 10000
           /\ (0 < raw /\ raw < 100 * cap) => 2 * Abs(s * cap - raw * 100) <= cap
           /\ (/\ 2 * (sf_out.tot_1 * 100) = cap
               /\ sf_out.tot_3 * 100 = cap
               /\ 5 * (sf_out.tot_5 * 100) = cap
               /\ sf_out.premium_flag) => s = 6900

\* the security of the example: flow_1d 0.5 %, flow_3d 1.0 %, flow_5d 0.2 %
\* of the market capitalisation, bought on each of the last three days
C8_Witness ==
    /\ Detailed
    /\ 2 * (sf_out.tot_1 * 100) = sf_out.mcap
    /\ sf_out.tot_3 * 100 = sf_out.mcap
    /\ 5 * (sf_out.tot_5 * 100) = sf_out.mcap
    /\ sf_out.premium_flag
    /\ sf_out.strength = 6900

\* C9: premium_flag is true exactly when the combined institutional +
\* foreign net flow was strictly positive on each of the last 3 days of the
\* calendar; a day of zero or negative flow among them makes it false.
C9_PremiumFlagIffThreeBuyingDays ==
    Detailed =>
        (sf_out.premium_flag <=>
            \A d \in (SUPPLY_FLOW_WINDOW_DAYS - 2)..SUPPLY_FLOW_WINDOW_DAYS : NetFlow(d) > 0)

\* two buying days and one day of exactly zero combined flow: no flag
C9_Witness ==
    /\ Detailed
    /\ NetFlow(SUPPLY_FLOW_WINDOW_DAYS) > 0
    /\ NetFlow(SUPPLY_FLOW_WINDOW_DAYS - 1) = 0
    /\ sf_vol.rows[SUPPLY_FLOW_WINDOW_DAYS - 1] # None
    /\ NetFlow(SUPPLY_FLOW_WINDOW_DAYS - 2) > 0
    /\ ~sf_out.premium_flag

-----------------------------------------------------------------------------
(* Percentage return. *)

PctCalled == pc_pc = "done"

\* C11: pct(a, b) returns NaN when a is missing, when b is missing or when
\* b is exactly 0, and (a / b - 1) * 100 in every other case (here to the
\* nearest hundredth of a percent); it never raises.
C11_PctTotal ==
    PctCalled =>
        /\ pc_out # Raised
        /\ (pd_isna(pc_a) \/ pd_isna(pc_b) \/ pc_b = Num(0)) => pc_out = NaN
        /\ ~(pd_isna(pc_a) \/ pd_isna(pc_b) \/ pc_b = Num(0)) =>
              /\ pc_out.tag = "num"
              /\ 2 * Abs(pc_out.v * pc_b.v - 10000 * (pc_a.v - pc_b.v)) <= Abs(pc_b.v)

\* a return over a baseline of exactly 0 has been asked for
C11_Witness ==
    /\ PctCalled
    /\ pc_a = Num(3)
    /\ pc_b = Num(0)
    /\ pc_out = NaN

-----------------------------------------------------------------------------
(* Futures signals: fallback fetch. *)

\* the calls of safe_fetch made for the signal with key k, in order
CallsFor(k) == SelectSeq(fs_log, LAMBDA c : c.key = k)

\* the position in FuturesSignals of the signal a call was made for
SignalIndex(k) == CHOOSE j \in 1..Len(FuturesSignals) : FuturesSignals[j].key = k

\* C12: for each futures signal the primary ticker is fetched first and the
\* fallback ticker at most once, and only when the primary fetch failed or
\* returned fewer bars than the signal needs; when the fallback fails or is
\* too short as well the signal is NaN, and no further fetch is made for it.
C12_FallbackOnce ==
    /\ \A j \in 1..Len(FuturesSignals) :
         LET sig == FuturesSignals[j]
             calls == CallsFor(sig.key) IN
         /\ Len(calls) <= 2
         /\ Len(calls) >= 1 => calls[1].ticker = FUTURES[sig.name].main
         /\ Len(calls) = 2 =>
              /\ calls[2].ticker = FUTURES[sig.name].alt
              /\ ~calls[1].enough
         /\ j <= Len(fs_signals) =>
              /\ fs_signals[j].key = sig.key
              /\ Len(calls) >= 1
              /\ (Len(calls) = 2 /\ ~calls[2].enough) => fs_signals[j].value = NaN
    /\ \A a, b \in 1..Len(fs_log) :
         a < b => SignalIndex(fs_log[a].key) <= SignalIndex(fs_log[b].key)

\* all four signals computed: for ES_ret_d both fetches were too short and
\* the signal is NaN, for NQ_ret_4h the primary frame sufficed
C12_Witness ==
    /\ fs_pc = "done"
    /\ Len(CallsFor("ES_ret_d")) = 2
    /\ ~CallsFor("ES_ret_d")[2].enough
    /\ fs_signals[1].value = NaN
    /\ Len(CallsFor("NQ_ret_4h")) = 1
    /\ fs_signals[4].value = Num(-196)

-----------------------------------------------------------------------------
(* Composite weights. *)

\* C13: for KOSPI and for every other market name (KOSDAQ) the four
\* Composite weights that _ms_compute_scores has used (flow, trend, macro,
\* breadth; in percent) sum to exactly 1.0, that is to 100 percent.
C13_WeightsSumToOne ==
    Computed =>
        LET w == CompositeWeights(ms_scn.name) IN
        /\ Len(w) = 4
        /\ w[1] + w[2] + w[3] + w[4] = 100

\* the KOSDAQ series has been scored and its last day has a Composite
C13_Witness ==
    /\ Computed
    /\ ms_scn.name = "KOSDAQ"
    /\ IsNum(ms_out[Len(ms_out)].Composite)

-----------------------------------------------------------------------------
(* Accumulation of the rule points. *)

RECURSIVE SumSeq(_)
SumSeq(q) == IF q = <<>> THEN 0 ELSE Head(q) + SumSeq(Tail(q))

\* what the i-th if-block adds on its own, starting from empty accumulators
KospiAlone(i) == kospi_rule(i, global_s, Acc0)
KosdaqAlone(i) == kosdaq_rule(i, global_s, kosdaq_s, Acc0)

\* a block adds nothing, or a positive point value to exactly one accumulator
OneSided(acc) ==
    /\ acc.up >= 0 /\ acc.down >= 0
    /\ ~(acc.up > 0 /\ acc.down > 0)

\* from if-block n of score_kospi on, with the accumulators at acc, no block
\* lowers up or down
RECURSIVE KospiNeverLowers(_, _)
KospiNeverLowers(n, acc) ==
    \/ n > KospiRuleCount
    \/ /\ kospi_rule(n, global_s, acc).up >= acc.up
       /\ kospi_rule(n, global_s, acc).down >= acc.down
       /\ KospiNeverLowers(n + 1, kospi_rule(n, global_s, acc))

\* the same for the if-blocks of score_kosdaq
RECURSIVE KosdaqNeverLowers(_, _)
KosdaqNeverLowers(n, acc) ==
    \/ n > KosdaqRuleCount
    \/ /\ kosdaq_rule(n, global_s, kosdaq_s, acc).up >= acc.up
       /\ kosdaq_rule(n, global_s, kosdaq_s, acc).down >= acc.down
       /\ KosdaqNeverLowers(n + 1, kosdaq_rule(n, global_s, kosdaq_s, acc))

\* C14: the upside score is min(100, sum of the points of the upside rules
\* that fired) and the downside score min(100, sum of the points of the
\* downside rules that fired): no rule decreases an accumulator, a firing
\* rule changes only one of them, and the only clamp is the final one.
C14_ScoreIsClampedSum ==
    /\ KospiScored =>
         /\ \A i \in 1..KospiRuleCount : OneSided(KospiAlone(i))
         /\ KospiNeverLowers(1, Acc0)
         /\ kospi_out[1] = Min2(100, SumSeq([i \in 1..KospiRuleCount |-> KospiAlone(i).up]))
         /\ kospi_out[2] = Min2(100, SumSeq([i \in 1..KospiRuleCount |-> KospiAlone(i).down]))
    /\ KosdaqScored =>
         /\ \A i \in 1..KosdaqRuleCount : OneSided(KosdaqAlone(i))
         /\ KosdaqNeverLowers(1, Acc0)
         /\ kosdaq_out[1] = Min2(100, SumSeq([i \in 1..KosdaqRuleCount |-> KosdaqAlone(i).up]))
         /\ kosdaq_out[2] = Min2(100, SumSeq([i \in 1..KosdaqRuleCount |-> KosdaqAlone(i).down]))

\* the downside points sum to more than 100 and are clamped, an upside rule
\* fired as well: upside + downside exceeds 100
C14_Witness ==
    /\ KosdaqScored
    /\ kospi_run(KospiRuleCount, global_s, {}).down > 100
    /\ kospi_out[2] = 100
    /\ kospi_out[1] > 0
    /\ kospi_out[1] + kospi_out[2] > 100

-----------------------------------------------------------------------------
(* Order of the drivers. *)

\* the concatenation of the sequences of q, in order
RECURSIVE Concat(_)
Concat(q) == IF q = <<>> THEN <<>> ELSE Head(q) \o Concat(Tail(q))

\* a block that adds points appends exactly one driver, on the side of the
\* points; a block that adds none appends none
OneDriverPerFiring(acc) ==
    /\ Len(acc.du) = (IF acc.up > 0 THEN 1 ELSE 0)
    /\ Len(acc.dd) = (IF acc.down > 0 THEN 1 ELSE 0)

\* C15: each returned driver list holds the drivers of the rules that fired
\* in that direction, one per fired rule, in the order in which the rules
\* are evaluated.
C15_DriversInRuleOrder ==
    /\ KospiScored =>
         /\ \A i \in 1..KospiRuleCount : OneDriverPerFiring(KospiAlone(i))
         /\ kospi_out[3] = Concat([i \in 1..KospiRuleCount |-> KospiAlone(i).du])
         /\ kospi_out[4] = Concat([i \in 1..KospiRuleCount |-> KospiAlone(i).dd])
    /\ KosdaqScored =>
         /\ \A i \in 1..KosdaqRuleCount : OneDriverPerFiring(KosdaqAlone(i))
         /\ kosdaq_out[3] = Concat([i \in 1..KosdaqRuleCount |-> KosdaqAlone(i).du])
         /\ kosdaq_out[4] = Concat([i \in 1..KosdaqRuleCount |-> KosdaqAlone(i).dd])

\* several upside rules of both scorers fired; the first driver of score_kospi
\* is that of its first if-block
C15_Witness ==
    /\ KosdaqScored
    /\ Len(kospi_out[3]) >= 3
    /\ Len(KospiAlone(1).du) = 1
    /\ kospi_out[3][1] = KospiAlone(1).du[1]
    /\ kospi_out[3][1] # kospi_out[3][2]
    /\ Len(kosdaq_out[3]) >= 2

-----------------------------------------------------------------------------
(* Point value of the overnight Nasdaq-futures move in the two scorers. *)

\* C16: for NQ_ret_4h, the points that score_kospi adds are fewer than the
\* points that score_kosdaq adds, in the upside and in the downside
\* direction (if-block 4 of score_kospi, if-block 2 of score_kosdaq).
C16_KospiWeighsOvernightLower ==
    KosdaqScored =>
        /\ KospiAlone(4).up > 0 => KospiAlone(4).up < KosdaqAlone(2).up
        /\ KospiAlone(4).down > 0 => KospiAlone(4).down < KosdaqAlone(2).down

-----------------------------------------------------------------------------
(* KOSDAQ signals on a missing or short series. *)

KqComputed == kq_pc = "done"

\* C17: when the KOSDAQ150 series is missing or shorter than the lookback
\* (6 bars), every signal that compute_kosdaq_signals emits (daily return,
\* ATR5 %, long-red flag) is not available; none of them is 0.
C17_ShortSeriesAllUnavailable ==
    (KqComputed /\ (kq_df.none \/ Len(kq_df.rows) < 6)) =>
        \A k \in KosdaqKeys : pd_isna(kq_s[k].value)

-----------------------------------------------------------------------------
(* Availability of the return signals. *)

\* the signal emitted last by the futures loop, and the frame it was read from
FuturesEmitted == fs_pc \in {"fetch_main", "done"} /\ Len(fs_signals) >= 1

\* the frame has n bars or more, the last close and the close n bars back
\* are present, and the latter is not 0
ReturnDefined(closes, n) ==
    /\ Len(closes) >= n
    /\ ~pd_isna(closes[Len(closes)])
    /\ ~pd_isna(closes[Len(closes) - n + 1])
    /\ closes[Len(closes) - n + 1] # Num(0)

\* C18: a day-over-day return signal is a number whenever its series has at
\* least 2 bars with both closes present and a nonzero baseline, and a
\* 4-hour change whenever the intraday frame has at least 4 bars (closes
\* present, baseline nonzero); in particular KOSDAQ150_ret_d is a number for
\* a KOSDAQ150 series of 2 to 5 bars.
C18_ReturnAvailableFromTwoBars ==
    /\ (/\ FuturesEmitted
        /\ ~fs_df.none
        /\ ReturnDefined(fs_df.rows, FuturesSignals[Len(fs_signals)].back))
       => IsNum(fs_signals[Len(fs_signals)].value)
    /\ (/\ KqComputed
        /\ ~kq_df.none
        /\ Len(kq_df.rows) >= 2
        /\ kq_df.rows[Len(kq_df.rows) - 1].close # 0)
       => IsNum(kq_s["KOSDAQ150_ret_d"].value)

-----------------------------------------------------------------------------
(* No look-ahead in the composite. *)

\* the four sub-scores and the Composite of a scored row
DayScores(r) ==
    <<r.Flow_score, r.Trend_score, r.Breadth_score, r.Macro_score, r.Composite>>

\* C19: _ms_compute_scores has no look-ahead: scoring the series with one
\* more day appended (the step from "compute" back to "load") leaves the four sub-scores and the Composite of every
\* earlier day as they were on the shorter series (and so, day after day,
\* as they were on the series truncated after that day).
C19_NoLookAhead ==
    [][(ms_pc = "compute" /\ ms_pc' = "load") =>
          /\ Len(ms_out') = Len(ms_out) + 1
          /\ \A t \in 1..Len(ms_out) : DayScores(ms_out'[t]) = DayScores(ms_out[t])]_vars

\* a series with macro columns has been scored again after the first day
\* with a Composite, that day being no longer the last
C19_Witness ==
    /\ Computed
    /\ ms_df.macro
    /\ Len(ms_out) >= 3
    /\ IsNum(ms_out[Len(ms_out) - 2].Composite)
    /\ ms_out[Len(ms_out) - 2].Composite # ms_out[Len(ms_out)].Composite

-----------------------------------------------------------------------------
(* Gaps in the macro columns. *)

\* the most recent value of the column at or before day t, 0 when there is none
LastKnownOrZero(col, t) ==
    IF \A i \in 1..t : pd_isna(col[i]) THEN Num(0)
    ELSE col[CHOOSE i \in 1..t : ~pd_isna(col[i]) /\ \A j \in (i + 1)..t : pd_isna(col[j])]

\* the macro sub-score of every day is made of the last known inputs
MacroFromLastKnown(fx_col, rt_col, out) ==
    \A t \in 1..Len(out) :
        out[t].Macro_score =
            Macro_score_of(LastKnownOrZero(fx_col, t), LastKnownOrZero(rt_col, t))

\* C20: when the FX/rate columns exist, a day's missing macro input is
\* replaced by the most recent earlier value of that input, or by 0 when
\* there is none; so the macro sub-score -(0.6 fx + 0.4 rate) is a number on
\* every day, and a day's Composite is a number whenever its flow, trend and
\* breadth sub-scores are.
C20_MacroGapsFilled ==
    (Computed /\ ms_df.macro) =>
        /\ MacroFromLastKnown([i \in 1..Len(ms_df.rows) |-> ms_df.rows[i].FX_20d],
                              [i \in 1..Len(ms_df.rows) |-> ms_df.rows[i].Rate_20d],
                              ms_out)
        /\ \A t \in 1..Len(ms_out) :
            /\ IsNum(ms_out[t].Macro_score)
            /\ (IsNum(ms_out[t].Flow_score) /\ IsNum(ms_out[t].Trend_score)
                  /\ IsNum(ms_out[t].Breadth_score))
               => IsNum(ms_out[t].Composite)

\* macro columns with gaps: the first day has no macro value at all and
\* scores 0, the last day misses its FX value, takes an earlier one and has
\* a Composite
C20_Witness ==
    /\ Computed
    /\ ms_df.macro
    /\ pd_isna(ms_df.rows[1].FX_20d) /\ pd_isna(ms_df.rows[1].Rate_20d)
    /\ ms_out[1].Macro_score = Num(0)
    /\ pd_isna(ms_df.rows[Len(ms_df.rows)].FX_20d)
    /\ ms_out[Len(ms_out)].Macro_score # Num(0)
    /\ IsNum(ms_out[Len(ms_out)].Composite)

-----------------------------------------------------------------------------
(* A required series that cannot be loaded. *)

ReportReturned == gm_pc = "done"

\* a loader returned None, or was not called after another had
SeriesNotLoaded ==
    \/ gm_loaded.k_idx.none \/ gm_loaded.k_flow.none
    \/ gm_loaded.q_idx.none \/ gm_loaded.q_flow.none

\* the composite in the metadata is a number with its band, or None with
\* the band of a missing composite
CompositeOrUnavailable(c, band) ==
    \/ c = None /\ band = "insufficient data"
    \/ IsNum(c) /\ band = ms_composite_band(c) /\ band # "insufficient data"

-----------------------------------------------------------------------------
(* Division by zero in the classifier and in pct. *)

ClassifyReturned == cb_pc = "returned"
ClassifyApplicable == cb_high /\ ~cb_df.none /\ Len(cb_df.rows) >= 5

-----------------------------------------------------------------------------
(* Delivery: the dicts returned by send. *)

SendReturned == dl_pc = "sent"

\* C23: every notifier's send returns, on every path, a dict with the keys
\* success, message and url (it raises nothing and no key is missing), for
\* the notifier of main and for every child of a CompositeNotifier.
C23_SendReturnsThreeKeys ==
    SendReturned =>
        /\ ~IsExc(dl_result)
        /\ {"success", "message", "url"} \subseteq DOMAIN dl_result

-----------------------------------------------------------------------------
(* CompositeNotifier.send. *)

CompositeSending == dl_pc \in {"send", "sent"} /\ notifier.cls = "CompositeNotifier"

\* C25: CompositeNotifier.send calls send on every child exactly once, in
\* list order, whatever the earlier children returned or raised, records one
\* result per child, and reports success exactly when at least one child
\* reported success (so failure for an empty list).
C25_CompositeCallsEveryChild ==
    CompositeSending =>
        /\ Len(dl_calls) <= Len(notifier.notifiers)
        /\ dl_calls = SubSeq(notifier.notifiers, 1, Len(dl_calls))
        /\ Len(results) = Len(dl_calls)
        /\ SendReturned =>
            /\ dl_calls = notifier.notifiers
            /\ dl_result.results = results
            /\ dl_result.success <=> (\E i \in 1..Len(results) : results[i].success)
            /\ notifier.notifiers = <<>> => ~dl_result.success

\* the first child raised, the second was still called and succeeded, and the
\* composite reports success
C25_Witness ==
    /\ SendReturned
    /\ notifier.cls = "CompositeNotifier"
    /\ Len(results) = 2
    /\ dl_calls[1] = "SlackFileNotifier"
    /\ results[1] = SendResult(FALSE, "error", "")
    /\ results[2].success
    /\ dl_result.success

-----------------------------------------------------------------------------
(* process_and_send_report. *)

\* C26: process_and_send_report calls notifier.send only after the generator
\* returned a report, returns True exactly when send returned a dict with
\* success true, and returns False (with main going on) when the generator
\* or the notifier raised.
C26_SendOnlyAfterReport ==
    /\ dl_pc \in {"send", "sent"} => dl_report = "report"
    /\ dl_pc \in {"generate", "summary", "exit"} /\ dl_report # "report" =>
           dl_calls = <<>> /\ dl_result = NoResult
    /\ \A k \in 1..Len(dl_done) :
        /\ dl_done[k].generated # "report" => dl_done[k].sent = "not called"
        /\ dl_done[k].generated = "report" => dl_done[k].sent # "not called"
        /\ dl_done[k].returned <=> dl_done[k].sent = "success"
        /\ (dl_done[k].generated = "raise" \/ dl_done[k].sent = "raised")
               => ~dl_done[k].returned

\* the notifier raised for the first report and False was returned; the
\* second generator raised; the third report was sent and True returned
C26_Witness ==
    /\ Len(dl_done) >= 3
    /\ dl_done[1].sent = "raised" /\ ~dl_done[1].returned
    /\ dl_done[2].generated = "raise" /\ ~dl_done[2].returned
    /\ dl_done[3].sent = "success" /\ dl_done[3].returned

-----------------------------------------------------------------------------
(* main. *)

MainEnded == dl_pc = "exit"

\* the number of finished calls whose report was generated and sent
SentCount == Cardinality({k \in 1..Len(dl_done) : dl_done[k].generated = "report" /\ dl_done[k].sent = "success"})

\* C27: main processes premium stock, gap up/down, market summary and market
\* supply in this order, each of them whatever happened to the earlier ones;
\* success_count is the number of reports generated and sent successfully,
\* between 0 and 4; when create_notifier raises no report is attempted.
C27_FourReportsInOrder ==
    /\ \A k \in 1..Len(dl_done) :
          dl_done[k].report =
              <<"generate_premium_stock_report", "getUpAndDownReport",
                "generate_market_summary_report", "generate_market_supply_report">>[k]
    /\ Len(dl_done) <= 4
    /\ success_count = SentCount
    /\ success_count \in 0..4
    /\ (MainEnded /\ notifier # NoNotifier) => Len(dl_done) = 4
    /\ notifier = NoNotifier => dl_done = <<>> /\ dl_i = 0
    /\ MainEnded =>
          (notifier = NoNotifier <=> IsExc(create_notifier(DELIVERY_MODE, COMPOSITE_MODES)))

\* the first report was not generated, the second was generated and not
\* sent, the last two were sent: main ends with 2 of 4
C27_Witness ==
    /\ MainEnded
    /\ Len(dl_done) = 4
    /\ dl_done[1].generated = "None"
    /\ dl_done[2].sent = "failure"
    /\ dl_done[3].returned /\ dl_done[4].returned
    /\ success_count = 2

-----------------------------------------------------------------------------
(* The two bearish labels of classify_breakout_pattern. *)

\* today's row and the previous row of the filtered window
TodayRow == df_recent.rows[Len(df_recent.rows)]
PrevRow == df_recent.rows[Len(df_recent.rows) - 1]

\* upper_shadow_ratio > 0.6, with total_range = max(high - low, 1e-6)
LongUpperShadow ==
    LET shadow == TodayRow.high - Max2(TodayRow.open, TodayRow.close)
        range == TodayRow.high - TodayRow.low
    IN IF range >= 1 THEN 10 * shadow > 6 * range ELSE shadow > 0

\* change_today <= 0 and change_today <= -0.03
ClosedNotHigher == TodayRow.close <= PrevRow.close
ClosedThreePercentLower == 100 * TodayRow.close <= 97 * PrevRow.close

\* C24: in an applicable window the label is FalseBreakoutUpperShadow exactly
\* when today's close is at or below the previous close and the upper-shadow
\* ratio is above 0.6, and BreakoutFailureCrash exactly when the close is 3%
\* or more below the previous close and the ratio is at most 0.6; so a drop
\* of 3% or more under a long upper shadow is a false breakout, not a crash.
C24_BearishLabels ==
    (Classified /\ Applicable) =>
        /\ (pattern = "FalseBreakoutUpperShadow") <=> (ClosedNotHigher /\ LongUpperShadow)
        /\ (pattern = "BreakoutFailureCrash") <=> (ClosedThreePercentLower /\ ~LongUpperShadow)

\* a close 4% below the previous close under an upper shadow that is the whole
\* range, labelled as a false breakout
C24_Witness ==
    /\ Classified /\ Applicable
    /\ ClosedThreePercentLower
    /\ LongUpperShadow
    /\ pattern = "FalseBreakoutUpperShadow"

\* a close exactly 3% lower whose upper shadow is exactly 0.6 of the range
C24_BoundaryReached ==
    /\ Classified /\ Applicable
    /\ 100 * TodayRow.close = 97 * PrevRow.close
    /\ LET shadow == TodayRow.high - Max2(TodayRow.open, TodayRow.close)
       IN shadow > 0 /\ 10 * shadow = 6 * (TodayRow.high - TodayRow.low)
    /\ pattern = "BreakoutFailureCrash"

-----------------------------------------------------------------------------
(* Range of the Composite (values in hundredths). *)

\* a value that is missing or lies in [-100, 100]
WithinHundred(x) == IsNum(x) => (-10000 <= x.v /\ x.v <= 10000)

\* C29: on every row of the frame that _ms_compute_scores returns, each of
\* the four terms of the Composite (flow, trend and macro strength, and the
\* breadth score) that is available lies in [-100, 100], the weights are
\* non-negative and sum to 1, and the Composite, when available, lies in
\* [-100, 100].
C29_CompositeWithinHundred ==
    Computed =>
        /\ \A k \in 1..4 : CompositeWeights(ms_scn.name)[k] >= 0
        /\ CompositeWeights(ms_scn.name)[1] + CompositeWeights(ms_scn.name)[2]
             + CompositeWeights(ms_scn.name)[3] + CompositeWeights(ms_scn.name)[4] = 100
        /\ \A t \in 1..Len(ms_out) :
             /\ WithinHundred(ms_out[t].flow_strength)
             /\ WithinHundred(ms_out[t].trend_strength)
             /\ WithinHundred(ms_out[t].macro_effect)
             /\ WithinHundred(ms_out[t].market_health)
             /\ WithinHundred(ms_out[t].Composite)

\* a day with a Composite whose flow score is above 60, so that the flow
\* strength is the clipped 100
C29_Witness ==
    /\ Computed
    /\ \E t \in 1..Len(ms_out) :
         /\ IsNum(ms_out[t].Composite)
         /\ ms_out[t].Flow_score.v > 6000
         /\ ms_out[t].flow_strength = Num(10000)

-----------------------------------------------------------------------------
(* Regime of the strategy guide against the band. *)

Guided == sg_pc = "guided"

\* the regime that a guide text names for a band: the band's own name, and
\* "data missing" for the insufficient-data band
RegimeOfBand(band) == IF band = "insufficient data" THEN "data missing" ELSE band

\* C30: for every composite, the six boundary values and a composite that is
\* not available included, the guide of either module names the market it
\* was called for and the regime of the band that the banding function of
\* the same module returned for that composite.
C30_GuideFollowsBand ==
    Guided =>
        /\ sg_guide.market = sg_market
        /\ sg_guide.regime = RegimeOfBand(sg_band)

\* the guide for a composite of exactly -5: weakly bearish, as its band
C30_Witness ==
    /\ Guided
    /\ sg_module = "report_generator"
    /\ sg_c = Num(-50)
    /\ sg_band = "weakly bearish"
    /\ sg_guide.regime = "weakly bearish"

-----------------------------------------------------------------------------
(* The sections of the premium stock report. *)

PremiumReported == pm_pc = "report"

\* the rows of the three sections, one after the other
SectionRows == recommend \o premium_main \o watch_df

\* how many rows of a frame carry a ticker
Occurrences(df, ticker) == Cardinality({k \in 1..Len(df) : df[k].ticker = ticker})

\* C28: in a report the three sections are pairwise disjoint and hold every
\* analysed security exactly once, so recommend_count + premium_count +
\* watch_count = total_stocks; every recommended security is premium, at a
\* 52-week high and labelled StrongBreakout or MildBreakout.
C28_SectionsPartition ==
    PremiumReported =>
        /\ \A k \in 1..Len(enriched) : Occurrences(SectionRows, enriched[k].ticker) = 1
        /\ \A k \in 1..Len(SectionRows) : \E j \in 1..Len(enriched) : SectionRows[k] = enriched[j]
        /\ metadata.recommend_count = Len(recommend)
        /\ metadata.premium_count = Len(premium_main)
        /\ metadata.watch_count = Len(watch_df)
        /\ metadata.total_stocks = Len(enriched)
        /\ metadata.recommend_count + metadata.premium_count + metadata.watch_count
             = metadata.total_stocks
        /\ \A k \in 1..Len(recommend) :
             /\ recommend[k].is_premium
             /\ recommend[k].high_52w = "Yes"
             /\ recommend[k].pattern \in {"StrongBreakout", "MildBreakout"}

\* a report of three securities with one in each section, the premium one
\* away from its 52-week high
C28_Witness ==
    /\ PremiumReported
    /\ Len(recommend) = 1 /\ Len(premium_main) = 1 /\ Len(watch_df) = 1
    /\ premium_main[1].high_52w = ""
    /\ recommend[1].pattern = "MildBreakout"

=============================================================================
